---- MODULE Spec2Model ----
(***************************************************************************)
(* Decision engine of the bodybuilding coach (src/calculos_fisio.py) and   *)
(* the parts of the Streamlit front end (src/app.py) that call it.         *)
(*                                                                         *)
(* Units.  Python floats are modelled by exact integers in fixed units:    *)
(*   Peso, LBM, FM          hundredths of a kg   (80.00 kg  = 8000)        *)
(*   BF%                    hundredths of a %    (12.50 %   = 1250)        *)
(*   ACWR                   thousandths          (1.500     = 1500)        *)
(*   CV of the HRV          tenths of a %        (10.0 %    = 100)         *)
(*   weight-loss rate       thousandths of %/wk  (0.500     = 500)         *)
(*   dates                  day numbers                                    *)
(* An optional value (Python None, a pandas NaN, a missing dict key) is a  *)
(* set: {} when absent, {v} when present.                                  *)
(***************************************************************************)
EXTENDS Integers, Sequences, FiniteSets, TLC

VARIABLES
    df_historico,   \* the record series handed to the engine (as loaded: newest first)
    atleta,         \* AtletaMetrics
    prescricao,     \* result of prescrever_treino_do_dia, {} before the call
    metas,          \* weekly targets handed to the evaluator (a dict)
    fase,           \* phase label handed to the evaluator
    resultado,      \* result of avaliar_resultados_semana, {} before the call
    conflito_prioridade,  \* st.session_state["conflito_prioridade"], {} when unset
    tela,           \* what tab_avaliacao_semanal rendered on its last run
    atleta_escolheu, \* TRUE once the athlete has clicked an option of the radio
    hoje,           \* data_atual handed to the phase engine
    data_competicao, \* competition date handed to the phase engine
    sexo,           \* "Masculino" or "Feminino"
    periodizacao,   \* result of sugerir_fase_e_timeline, {} before the call
    tendencias,     \* results of calcular_acwr and calcular_cv_vfc, {} before the calls
    duplo_acima,    \* the series on whose decimal tie the double quotient falls above
    fator,          \* factor every load of the series is multiplied by
    acwr_escalado,  \* result of calcular_acwr on the scaled series, {} before the call
    dieta,          \* result of calcular_macros_semana, {} before the call
    medidas_atleta, \* the rows of table medidas_atleta of the user
    reg_editando,   \* st.session_state["reg_editando"], {} when None
    prox_id,        \* the id the table gives to the next inserted row
    ultimo_registro_cache, \* st.session_state["ultimo_registro_cache"], {} when the key is absent
    ultimo_lido,         \* what carregar_ultimo_registro returned to the running cycle
    reg_pending,    \* st.session_state["_reg_pending"], {} when the key is absent
    reg_peso,       \* st.session_state["reg_peso"], the weight field of the form
    selecao,        \* id of the row selected in the history table, {} when none
    rerun,          \* TRUE when the cycle ended in st.rerun() and the next has not run
    evento,         \* the button or click the last cycle of the records tab served
    treino_manual,  \* the rows of table treino_manual of the user
    periodizacao_manual, \* the rows of table periodizacao_manual of the user
    dieta_manual,   \* the rows of table dieta_manual of the user
    salvamento,     \* the last save of a manual plan and how it went, {} before any
    chamadas        \* the calls of the core functions made so far, oldest first

vars == <<df_historico, atleta, prescricao, metas, fase, resultado,
          conflito_prioridade, tela, atleta_escolheu,
          hoje, data_competicao, sexo, periodizacao, tendencias,
          duplo_acima, fator, acwr_escalado, dieta,
          medidas_atleta, reg_editando, prox_id, ultimo_registro_cache,
          ultimo_lido, reg_pending, reg_peso, selecao, rerun, evento,
          treino_manual, periodizacao_manual, dieta_manual, salvamento,
          chamadas>>

varsFase == <<hoje, data_competicao, sexo, periodizacao>>

varsUI == <<conflito_prioridade, tela, atleta_escolheu>>

varsEscala == <<duplo_acima, fator, acwr_escalado>>

varsRegistros == <<medidas_atleta, reg_editando, prox_id,
                   ultimo_registro_cache, ultimo_lido, reg_pending, reg_peso,
                   selecao, rerun, evento>>

varsManual == <<treino_manual, periodizacao_manual, dieta_manual, salvamento>>

----------------------------------------------------------------------------
(* Bounds of the model *)

\* longest record series drawn as an input
MaxRegistros == 14

\* longest run of Cutting weeks drawn as a history
MaxSemanas == 19

----------------------------------------------------------------------------
(* Optional values and arithmetic helpers *)

None == {}

\* the empty dict
EmptyDict == [k \in {} |-> 0]

Some(v) == {v}

Val(x) == CHOOSE v \in x : TRUE

Min(a, b) == IF a <= b THEN a ELSE b

\* Python round() of the exact quotient num/den (den > 0): nearest, ties to
\* even.  Python rounds the binary double, so on a decimal tie, and in a
\* comparison of an unrounded quotient with a bound it equals exactly, the
\* double decides; the numbers drawn below avoid both.
Round(num, den) ==
    LET q == num \div den
        r == num - q * den
    IN  IF 2 * r < den THEN q
        ELSE IF 2 * r > den THEN q + 1
        ELSE IF q % 2 = 0 THEN q ELSE q + 1

\* round() where a decimal tie is settled by the double: the quotient is
\* computed in binary floating point and on a tie lies just above the tie,
\* on it or just below it (10/(160/13) gives 0.8125 -> 0.812 and
\* 30/(480/13) gives 0.8125000000000001 -> 0.813)
RoundDuplo(num, den, acima) ==
    LET q == num \div den
    IN  IF 2 * (num - q * den) = den
        THEN (IF acima THEN q + 1 ELSE q)
        ELSE Round(num, den)

\* floor(a * b / c) without forming a * b  (a, b >= 0, c > 0)
MulDiv(a, b, c) == (a \div c) * b + ((a % c) * b) \div c

RECURSIVE ISqrtIn(_, _, _)
ISqrtIn(x, lo, hi) ==
    IF lo >= hi THEN lo
    ELSE LET mid == (lo + hi + 1) \div 2
         IN  IF mid * mid <= x THEN ISqrtIn(x, mid, hi) ELSE ISqrtIn(x, lo, mid - 1)

\* floor of the square root
ISqrt(x) == ISqrtIn(x, 0, Min(x, 46340))

RECURSIVE SumSeq(_)
SumSeq(s) == IF s = <<>> THEN 0 ELSE Head(s) + SumSeq(Tail(s))

Reverse(s) == [i \in 1..Len(s) |-> s[Len(s) + 1 - i]]

\* the last k elements of s (all of s when it is shorter): pandas .iloc[-k:]
LastN(s, k) == IF Len(s) <= k THEN s ELSE SubSeq(s, Len(s) - k + 1, Len(s))

----------------------------------------------------------------------------
(* The record series (DataFrame df_historico) *)

\* one row of df_historico after carregar_registros renamed the columns
Registro(data, peso, bf, carga, vfc, fase_h) ==
    [Data |-> data, Peso |-> peso, BF_Atual |-> bf, Carga_Treino |-> carga,
     VFC_Atual |-> vfc, Fase_Historica |-> fase_h]

RECURSIVE InsertByData(_, _)
InsertByData(r, s) ==
    IF s = <<>> THEN <<r>>
    ELSE IF r.Data < Head(s).Data THEN <<r>> \o s
    ELSE <<Head(s)>> \o InsertByData(r, Tail(s))

RECURSIVE SortByData(_)
\* df.sort_values("Data"): ascending by date
SortByData(df) ==
    IF df = <<>> THEN <<>>
    ELSE InsertByData(df[Len(df)], SortByData(SubSeq(df, 1, Len(df) - 1)))

\* the column `col` of df as a sequence of optional values
Coluna(df, col) == [i \in 1..Len(df) |-> df[i][col]]

\* Series.fillna(0)
FillNa0(x) == IF x = None THEN 0 ELSE Val(x)

RECURSIVE DropNa(_)
\* Series.dropna(): the present values, in order
DropNa(s) ==
    IF s = <<>> THEN <<>>
    ELSE IF Head(s) = None THEN DropNa(Tail(s))
    ELSE <<Val(Head(s))>> \o DropNa(Tail(s))

\* A series of n daily rows ending on day n, newest first as the store returns
\* it (order("data", desc=True)): the rows before the last week are `velho`,
\* the row seven back is `ini`, the last row is `fim`, the rows between them
\* are `meio`.  Each of them is a record of the measured columns.
Serie(n, velho, ini, meio, fim) ==
    Reverse([i \in 1..n |->
        LET m == IF i = n THEN fim
                 ELSE IF i = n - 6 THEN ini
                 ELSE IF i > n - 6 THEN meio
                 ELSE velho
        IN  Registro(i, m.Peso, m.BF_Atual, m.Carga_Treino, m.VFC_Atual,
                     m.Fase_Historica)])

Medida(peso, bf, carga, vfc, fase_h) ==
    [Peso |-> peso, BF_Atual |-> bf, Carga_Treino |-> carga, VFC_Atual |-> vfc,
     Fase_Historica |-> fase_h]

----------------------------------------------------------------------------
(* Trend extractors: ACWR and CV of the HRV *)

\* a floor of 5 rows in place of 7
PoucosRegistros_Cinco(df) == Len(df) < 5

\* `if df is None or len(df) < 7`
PoucosRegistros(df) == Len(df) < 7

calcular_acwr(df) ==
    IF PoucosRegistros(df)
    THEN [val |-> None, status |-> "Dados insuficientes (min. 7 registros)."]
    ELSE LET d       == SortByData(df)
             carga   == [i \in 1..Len(d) |-> FillNa0(d[i].Carga_Treino)]
             m       == Min(28, Len(d))
             aguda7  == SumSeq(LastN(carga, 7))      \* 7 * aguda
             cronica == SumSeq(LastN(carga, m))      \* m * cronica
         IN  IF cronica = 0
             THEN [val |-> None, status |-> "Carga cronica zerada."]
             ELSE LET acwr == RoundDuplo(aguda7 * m * 1000, 7 * cronica,
                                           df \in duplo_acima)
                  IN  [val |-> Some(acwr),
                       status |-> IF acwr < 800 THEN "Subtreino"
                                  ELSE IF acwr <= 1300 THEN "Zona otima"
                                  ELSE IF acwr <= 1500 THEN "Atencao"
                                  ELSE "Alto risco"]

\* round(std / mean * 100, 1) in tenths, for the 7 values of v (sample
\* standard deviation, ddof = 1): with S the sum and Q the sum of squares,
\* (std/mean)^2 = 7 * (7Q - S^2) / (6 * S^2)
CvDecimos(v) ==
    LET S == SumSeq(v)
        Q == SumSeq([i \in 1..Len(v) |-> v[i] * v[i]])
        D == 7 * Q - S * S
        X == MulDiv(D * 14000, 1000, 3 * S * S)   \* floor((2000 * std / mean)^2)
    IN  (ISqrt(X) + 1) \div 2

calcular_cv_vfc(df) ==
    IF PoucosRegistros(df)
    THEN [val |-> None, status |-> "Dados insuficientes (min. 7 registros)."]
    ELSE LET d    == SortByData(df)
             vfc7 == LastN(DropNa(Coluna(d, "VFC_Atual")), 7)
         IN  IF Len(vfc7) < 7 \/ SumSeq(vfc7) = 0
             THEN [val |-> None, status |-> "VFC insuficiente."]
             ELSE LET cv == CvDecimos(vfc7)
                  IN  [val |-> Some(cv),
                       status |-> IF cv <= 70 THEN "VFC estavel"
                                  ELSE IF cv <= 100 THEN "VFC variavel"
                                  ELSE "VFC instavel"]

----------------------------------------------------------------------------
(* Recovery scorer *)

\* queda > pct in place of queda >= pct
QuedaPeloMenos_Estrita(a, pct) ==
    IF a.vfc_base > 0
    THEN (a.vfc_base - a.vfc_atual) * 100 > pct * a.vfc_base
    ELSE 0 > pct

\* queda >= pct, where queda = (vfc_base - vfc_atual) / vfc_base * 100 when
\* vfc_base > 0 and 0 otherwise
QuedaPeloMenos(a, pct) ==
    IF a.vfc_base > 0
    THEN (a.vfc_base - a.vfc_atual) * 100 >= pct * a.vfc_base
    ELSE 0 >= pct

PontosFadiga(a, acwr_val, cv_val) ==
      (IF QuedaPeloMenos(a, 20) THEN 3 ELSE IF QuedaPeloMenos(a, 10) THEN 2 ELSE 0)
    + (IF a.sleep_score < 50 THEN 2 ELSE IF a.sleep_score < 70 THEN 1 ELSE 0)
    + (IF a.recovery_time >= 48 THEN 2 ELSE IF a.recovery_time >= 36 THEN 1 ELSE 0)
    + (IF acwr_val # None /\ Val(acwr_val) # 0 /\ Val(acwr_val) > 1500 THEN 1 ELSE 0)
    + (IF cv_val # None /\ Val(cv_val) # 0 /\ Val(cv_val) > 100 THEN 1 ELSE 0)

prescrever_treino_do_dia(a, df) ==
    LET acwr == calcular_acwr(df)
        cv   == calcular_cv_vfc(df)
        pts  == PontosFadiga(a, acwr.val, cv.val)
        out(status, acao) ==
            [status |-> status, acao |-> acao, pts |-> pts,
             \* txt_vfc: "Queda" if queda > 0 else "Aumento"
             txt_vfc |-> IF a.vfc_base > 0 /\ a.vfc_base > a.vfc_atual
                         THEN "Queda" ELSE "Aumento",
             acwr_val |-> acwr.val, acwr_s |-> acwr.status,
             cv_val |-> cv.val, cv_s |-> cv.status]
    IN  IF pts >= 5 THEN out("Fadiga Severa", "DESCANSO TOTAL")
        ELSE IF pts >= 3 THEN out("Recuperacao Incompleta", "CARDIO ZONA 2")
        ELSE out("Totalmente Recuperado", "TREINO DE MUSCULACAO")

----------------------------------------------------------------------------
(* Phase and timeline *)

Span(tipo, rotulo, inicio, fim) ==
    [tipo |-> tipo, Fase |-> rotulo, Inicio |-> inicio, Fim |-> fim]

RECURSIVE SegmentosHistoricos(_, _, _, _)
\* run-length encoding of the phase stored on the past records; the last run
\* ends at data_atual
SegmentosHistoricos(rows, start, cur, data_atual) ==
    IF rows = <<>> THEN <<Span("Historico", cur, start, data_atual)>>
    ELSE LET row == Head(rows)
         IN  IF Val(row.Fase_Historica) # cur
             THEN <<Span("Historico", cur, start, row.Data)>>
                  \o SegmentosHistoricos(Tail(rows), row.Data,
                                         Val(row.Fase_Historica), data_atual)
             ELSE SegmentosHistoricos(Tail(rows), start, cur, data_atual)

\* the "Historico" block
Historico(df, data_atual) ==
    LET df_h == SortByData(SelectSeq(df, LAMBDA r : r.Fase_Historica # None))
    IN  IF df_h = <<>> THEN <<>>
        ELSE SegmentosHistoricos(df_h, df_h[1].Data, Val(df_h[1].Fase_Historica),
                                 data_atual)

\* the "Taxa de perda e plato" block: the flags it sets.  A missing weight
\* makes taxa NaN ({}): round(NaN) is NaN and both comparisons are False.
\* Weights are positive in every series drawn, so p_ini is never 0.
FlagsTaxa(df) ==
    IF Len(df) >= 14
    THEN LET df_s  == SortByData(df)
             p_ini == df_s[Len(df_s) - 13].Peso
             p_fim == df_s[Len(df_s)].Peso
         IN  IF None \in {p_ini, p_fim}
             THEN [taxa_perda_peso |-> None, plato_metabolico |-> FALSE]
             ELSE LET perda == Val(p_ini) - Val(p_fim)
                  IN  [taxa_perda_peso |-> Some(Round(perda * 50000, Val(p_ini))),
                       \* taxa < 0.5 and taxa > -0.1
                       plato_metabolico |-> /\ perda * 100 < Val(p_ini)
                                            /\ perda * 500 > -Val(p_ini)]
    ELSE EmptyDict

\* the male ceiling for everyone
LimiteBf_SemSexo(sx) == 1500

\* limite_bf
LimiteBf(sx) == IF sx = "Masculino" THEN 1500 ELSE 2200

\* dias_totais < 0 in place of dias_totais <= 0
Encerrado_Estrito(data_atual, data_comp) == data_comp - data_atual < 0

\* dias_totais <= 0
Encerrado(data_atual, data_comp) == data_comp - data_atual <= 0

\* the "Projecao" block: the current phase and the projected spans
\* inicio_peak = data_competicao - timedelta(days=7)
InicioPeak(data_comp) == data_comp - 7

\* a contest-prep window of 120 days
InicioCut_Longo(data_comp) == data_comp - 7 - 120

\* inicio_cut = inicio_peak - timedelta(days=112)
InicioCut(data_comp) == InicioPeak(data_comp) - 112

Projecao(data_atual, data_comp, bf_atual, sx) ==
    IF Encerrado(data_atual, data_comp)
    THEN [fase_atual |-> "Pos-Campeonato / Transicao",
          spans |-> <<Span("Projecao", "Pos-Campeonato / Transicao",
                           data_atual, data_atual + 30)>>]
    ELSE LET inicio_peak == InicioPeak(data_comp)
             inicio_cut  == InicioCut(data_comp)
         IN  IF data_atual < inicio_cut
             THEN LET fase_off == IF bf_atual < LimiteBf(sx) THEN "Bulking"
                                  ELSE "Recomposicao Corporal"
                  IN  [fase_atual |-> fase_off,
                       spans |-> << Span("Projecao", fase_off, data_atual, inicio_cut),
                                    Span("Projecao", "Cutting", inicio_cut, inicio_peak),
                                    Span("Projecao", "Peak Week", inicio_peak, data_comp) >>]
             ELSE IF data_atual < inicio_peak
             THEN [fase_atual |-> "Cutting",
                   spans |-> << Span("Projecao", "Cutting", data_atual, inicio_peak),
                                Span("Projecao", "Peak Week", inicio_peak, data_comp) >>]
             ELSE [fase_atual |-> "Peak Week",
                   spans |-> << Span("Projecao", "Peak Week", data_atual, data_comp) >>]

sugerir_fase_e_timeline(data_atual, data_comp, bf_atual, sx, df) ==
    LET proj == Projecao(data_atual, data_comp, bf_atual, sx)
    IN  [fase_atual |-> proj.fase_atual,
         timeline   |-> Historico(df, data_atual) \o proj.spans,
         flags      |-> FlagsTaxa(df)]

\* tab_periodizacao: the text of the "Taxa de Perda" metric; a rate that is
\* absent or 0.0 is falsy, a NaN is truthy
TaxaExibida(flags) ==
    IF "taxa_perda_peso" \in DOMAIN flags /\ flags["taxa_perda_peso"] # Some(0)
    THEN "taxa %/sem"
    ELSE "Dados insuficientes"

----------------------------------------------------------------------------
(* Weekly targets *)

\* taxa of calcular_metas_semana in millionths of the body weight per week
TaxaGanho(a) ==
    LET base == IF a.anos_treino <= 2 THEN 5000
                ELSE IF a.anos_treino <= 4 THEN 3500 ELSE 2500
    IN  IF a.uso_peds THEN (base * 13) \div 10 ELSE base

\* The athletes drawn below are ones for whom no target is a decimal tie
\* that the double rounds the other way.
calcular_metas_semana(a) ==
    IF a.fase_sugerida = "Bulking"
    THEN LET g_peso == Round(a.peso * TaxaGanho(a), 1000000)
         IN  [fase |-> "Bulking",
              ganho_peso_min  |-> Round(g_peso * 5, 10),
              ganho_peso_alvo |-> g_peso,
              ganho_peso_max  |-> Round(g_peso * 15, 10),
              ganho_lbm_alvo  |-> Round(g_peso * 65, 100),
              ganho_fm_alvo   |-> Round(g_peso * 35, 100),
              ganho_fm_max    |-> Round(g_peso * 40, 100),
              bf_max          |-> Round(a.bf_atual + 15, 10) * 10]
    ELSE IF a.fase_sugerida \in {"Cutting", "Pre-Contest (Cutting)"}
    THEN LET p_alvo == Round(a.peso * 7, 1000)
         IN  [fase |-> "Cutting",
              perda_peso_min  |-> Round(a.peso * 5, 1000),
              perda_peso_alvo |-> p_alvo,
              perda_peso_max  |-> Round(a.peso * 10, 1000),
              perda_lbm_max   |-> Round(p_alvo * 25, 100),
              bf_alvo_semana  |-> Round(a.bf_atual - 35, 10) * 10]
    ELSE IF a.fase_sugerida = "Peak Week"
    THEN [fase |-> "Peak Week",
          perda_peso_alvo |-> Round(a.peso, 100),
          bf_alvo_semana  |-> Round(a.bf_atual, 10) * 10]
    ELSE [fase |-> "Recomposicao",
          bf_alvo_semana |-> Round(a.bf_atual - 15, 10) * 10]

----------------------------------------------------------------------------
(* Weekly evaluation and multi-objective conflict detection *)

\* dict.get(chave, padrao)
Get(d, chave, padrao) == IF chave \in DOMAIN d THEN d[chave] ELSE padrao

\* comparisons of a possibly-NaN float with a number: False when NaN
Menor(x, y) == x # None /\ Val(x) < y

Maior(x, y) == x # None /\ Val(x) > y

Ajuste(objetivo, acao, delta, prioridade) ==
    [objetivo |-> objetivo, acao |-> acao, delta_calorias |-> delta,
     prioridade |-> prioridade]

Opcao(label, delta) == [label |-> label, delta_calorias |-> delta]

RECURSIVE InsertByPrioridade(_, _)
InsertByPrioridade(a, s) ==
    IF s = <<>> THEN <<a>>
    ELSE IF a.prioridade < Head(s).prioridade THEN <<a>> \o s
    ELSE <<Head(s)>> \o InsertByPrioridade(a, Tail(s))

\* the list left in the order the adjustments were appended
SortByPrioridade_SemOrdenar(s) == s

RECURSIVE SortByPrioridade(_)
\* list.sort(key=prioridade): ascending and stable
SortByPrioridade(s) ==
    IF s = <<>> THEN <<>>
    ELSE InsertByPrioridade(s[Len(s)], SortByPrioridade(SubSeq(s, 1, Len(s) - 1)))

\* the `if fase == "Bulking"` branch
AjustesBulking(m, delta_peso, delta_fm, bf_fim) ==
    LET alvo_min == Get(m, "ganho_peso_min", 0)
        alvo_max == Get(m, "ganho_peso_max", 9900)
        fm_max   == Get(m, "ganho_fm_max", 9900)
        bf_max   == Get(m, "bf_max", 9900)
    IN    (IF Menor(delta_peso, alvo_min)
           THEN <<Ajuste("Ganho de Massa", "Aumentar calorias +200kcal/dia", 200, 2)>>
           ELSE IF Maior(delta_peso, alvo_max)
           THEN <<Ajuste("Controle de Gordura", "Reduzir calorias -200kcal/dia", -200, 1)>>
           ELSE <<>>)
       \o (IF Maior(delta_fm, fm_max)
           THEN <<Ajuste("Controle de Gordura", "Reduzir calorias -150kcal/dia", -150, 1)>>
           ELSE <<>>)
       \o (IF Maior(bf_fim, bf_max)
           THEN <<Ajuste("BF% Critico", "Mini-cut de 2 semanas", -400, 0)>>
           ELSE <<>>)

\* the `elif fase in ["Cutting", "Pre-Contest (Cutting)"]` branch
AjustesCutting(m, delta_peso, delta_lbm) ==
    LET p_min   == Get(m, "perda_peso_min", 0)
        p_max   == Get(m, "perda_peso_max", 9900)
        lbm_max == Get(m, "perda_lbm_max", 9900)
    IN    (IF Maior(delta_peso, -p_min)
           THEN <<Ajuste("Taxa de Perda", "Aumentar deficit -200kcal/dia ou +cardio 20min", -200, 2)>>
           ELSE IF Menor(delta_peso, -p_max)
           THEN <<Ajuste("Retencao de LBM", "Reduzir deficit +200kcal/dia", 200, 1)>>
           ELSE <<>>)
       \o (IF Menor(delta_lbm, -lbm_max)
           THEN <<Ajuste("Preservacao de LBM", "Aumentar proteina +0.3g/kg e reduzir deficit +150kcal", 150, 0)>>
           ELSE <<>>)

\* the entry appended to resultado["conflitos"]
Conflito(f) ==
    IF f = "Bulking"
    THEN [descricao |-> "ganho de peso abaixo do alvo, gordura acima do limite",
          opcoes |-> << Opcao("Priorizar Ganho de Massa", 200),
                        Opcao("Priorizar Controle de Gordura", -150),
                        Opcao("Mini-cut 2 semanas", -500) >>]
    ELSE [descricao |-> "taxa de perda baixa, perda de LBM acima do toleravel",
          opcoes |-> << Opcao("Priorizar Perda de Gordura", -200),
                        Opcao("Priorizar Preservacao de LBM", 150) >>]

\* tem_descer counting only the deltas below -150
TemConflito_LimiarErrado(ajustes) ==
    /\ \E i \in 1..Len(ajustes) : ajustes[i].delta_calorias > 0
    /\ \E i \in 1..Len(ajustes) : ajustes[i].delta_calorias < -150

\* tem_subir and tem_descer
TemConflito(ajustes) ==
    /\ \E i \in 1..Len(ajustes) : ajustes[i].delta_calorias > 0
    /\ \E i \in 1..Len(ajustes) : ajustes[i].delta_calorias < 0

\* without the closing `if not ajustes and not conflitos`
StatusFinal_SemOnTrack(ajustes, conflitos) ==
    IF conflitos # <<>> THEN "conflito" ELSE "ok"

\* resultado["status"]: "ok" at construction, "conflito" once a conflict was
\* appended, "on_track" when there is neither an adjustment nor a conflict
StatusFinal(ajustes, conflitos) ==
    IF ajustes = <<>> /\ conflitos = <<>> THEN "on_track"
    ELSE IF conflitos # <<>> THEN "conflito"
    ELSE "ok"

avaliar_resultados_semana(df, m, f) ==
    IF Len(df) < 7
    THEN [status |-> "insuficiente",
          msg |-> Some("Minimo 7 registros para avaliacao semanal.")]
    ELSE
    LET d      == SortByData(df)
        n      == Len(d)
        p_ini  == d[n - 6].Peso
        p_fim  == d[n].Peso
        bf_ini == d[n - 6].BF_Atual
        bf_fim == d[n].BF_Atual
        nan    == None \in {p_ini, p_fim, bf_ini, bf_fim}
        delta_peso == IF None \in {p_ini, p_fim} THEN None
                      ELSE Some(Val(p_fim) - Val(p_ini))
        delta_bf   == IF None \in {bf_ini, bf_fim} THEN None
                      ELSE Some(Val(bf_fim) - Val(bf_ini))
        delta_lbm  == IF nan THEN None
                      ELSE Some(Round(Val(p_fim) * (10000 - Val(bf_fim))
                                      - Val(p_ini) * (10000 - Val(bf_ini)), 10000))
        delta_fm   == IF nan THEN None
                      ELSE Some(Round(Val(p_fim) * Val(bf_fim)
                                      - Val(p_ini) * Val(bf_ini), 10000))
        gerados    == IF f = "Bulking"
                      THEN AjustesBulking(m, delta_peso, delta_fm, bf_fim)
                      ELSE IF f \in {"Cutting", "Pre-Contest (Cutting)"}
                      THEN AjustesCutting(m, delta_peso, delta_lbm)
                      ELSE <<>>
        conflitos  == IF TemConflito(gerados) THEN <<Conflito(f)>> ELSE <<>>
        ajustes    == SortByPrioridade(gerados)
        em_dia     == ajustes = <<>> /\ conflitos = <<>>
    IN  [delta_peso |-> delta_peso, delta_lbm |-> delta_lbm,
         delta_fm |-> delta_fm, delta_bf |-> delta_bf,
         ajustes |-> ajustes, conflitos |-> conflitos,
         status |-> StatusFinal(ajustes, conflitos),
         msg |-> IF em_dia THEN Some("Dentro das metas. Manter protocolo atual.")
                 ELSE None]

----------------------------------------------------------------------------
(* Inputs shared by the specifications *)

\* AtletaMetrics: the fields the engine reads
AtletaBase ==
    [peso |-> 8000, bf_atual |-> 1200, vfc_base |-> 60, vfc_atual |-> 60,
     sleep_score |-> 80, recovery_time |-> 24, fase_sugerida |-> "Bulking",
     uso_peds |-> FALSE, estagnado_dias |-> 0, anos_treino |-> 5]

MedidaBase == Medida(Some(8000), Some(1200), Some(10), Some(60), None)

\* the variables of a component that a specification does not exercise
SemPrescricao == prescricao = None

SemAvaliacao == metas = EmptyDict /\ fase = "Bulking" /\ resultado = None

TelaVazia == [secao |-> "nenhuma", opcao |-> None, ajuste |-> None, ajustes |-> <<>>]

SemTela == conflito_prioridade = None /\ tela = TelaVazia /\ atleta_escolheu = FALSE

SemPeriodizacao ==
    hoje = 0 /\ data_competicao = 0 /\ sexo = "Masculino" /\ periodizacao = None

SemTendencias == tendencias = [acwr |-> None, cv |-> None]

SemEscala == fator = 1 /\ acwr_escalado = None

SemDieta == dieta = None

SemRegistros ==
    /\ medidas_atleta = {}
    /\ reg_editando = None
    /\ prox_id = 1
    /\ ultimo_registro_cache = None
    /\ ultimo_lido = None
    /\ reg_pending = None
    /\ reg_peso = 0
    /\ selecao = None
    /\ rerun = FALSE
    /\ evento = "abrir"

SemManual ==
    /\ treino_manual = {}
    /\ periodizacao_manual = {}
    /\ dieta_manual = {}
    /\ salvamento = None

SemChamadas == chamadas = <<>>

----------------------------------------------------------------------------
(* Specification of the recovery scorer: the inputs are drawn in Init, the *)
(* one action is the call.                                                 *)

AtletasRecuperacao ==
    { [AtletaBase EXCEPT !.vfc_base = b, !.vfc_atual = v, !.sleep_score = s,
                         !.recovery_time = r] :
        b \in {0, 60}, v \in {45, 48, 49, 54, 55, 60, 66},
        s \in {40, 49, 50, 69, 70}, r \in {35, 36, 47, 48, 50} }

MedidasCarga ==
    { [MedidaBase EXCEPT !.Carga_Treino = c, !.VFC_Atual = v] :
        c \in {None, Some(10)}, v \in {None, Some(60)} }

SeriesRecuperacao ==
    { Serie(n, velho, meio, meio, fim) :
        n \in 0..MaxRegistros, velho \in MedidasCarga, meio \in MedidasCarga,
        fim \in { [MedidaBase EXCEPT !.VFC_Atual = v] : v \in {Some(60), Some(40)} } }

InitRecuperacao ==
    /\ df_historico \in SeriesRecuperacao
    /\ atleta \in AtletasRecuperacao
    /\ prescricao = None
    /\ SemAvaliacao
    /\ SemTela
    /\ SemPeriodizacao
    /\ SemTendencias
    /\ duplo_acima \in SUBSET {df_historico}
    /\ SemEscala
    /\ SemDieta
    /\ SemRegistros
    /\ SemManual
    /\ SemChamadas

PrescreverTreinoDoDia ==
    /\ prescricao = None
    /\ prescricao' = Some(prescrever_treino_do_dia(atleta, df_historico))
    /\ UNCHANGED <<df_historico, atleta, metas, fase, resultado, varsUI, varsFase, tendencias, varsEscala, varsRegistros, varsManual, chamadas, dieta>>

NextRecuperacao == PrescreverTreinoDoDia

SpecRecuperacao == InitRecuperacao /\ [][NextRecuperacao]_vars

----------------------------------------------------------------------------
(* C1 *)

\* the fatigue score as the specification states it
C1_Pontos(a, p) ==
    LET queda100 == IF a.vfc_base > 0 THEN (a.vfc_base - a.vfc_atual) * 100 ELSE 0
        base     == IF a.vfc_base > 0 THEN a.vfc_base ELSE 1
    IN    (IF queda100 >= 20 * base THEN 3 ELSE IF queda100 >= 10 * base THEN 2 ELSE 0)
        + (IF a.sleep_score < 50 THEN 2 ELSE IF a.sleep_score < 70 THEN 1 ELSE 0)
        + (IF a.recovery_time >= 48 THEN 2 ELSE IF a.recovery_time >= 36 THEN 1 ELSE 0)
        + (IF \E x \in p.acwr_val : x > 1500 THEN 1 ELSE 0)
        + (IF \E x \in p.cv_val : x > 100 THEN 1 ELSE 0)

C1_AllSignals ==
    \E p \in prescricao :
        /\ \E x \in p.acwr_val : x > 1500
        /\ \E x \in p.cv_val : x > 100
        /\ p.pts = 4

----------------------------------------------------------------------------
(* Specification of the weekly evaluator *)

MetasBulking ==
    [fase |-> "Bulking", ganho_peso_min |-> 10, ganho_peso_max |-> 30,
     ganho_fm_max |-> 8, bf_max |-> 1220]

MetasCutting ==
    [fase |-> "Cutting", perda_peso_min |-> 40, perda_peso_max |-> 80,
     perda_lbm_max |-> 14]

MedidasSemana ==
    { [MedidaBase EXCEPT !.Peso = p, !.BF_Atual = b] :
        p \in {None, Some(7900), Some(7980), Some(8000), Some(8005), Some(8020), Some(8040)},
        b \in {None, Some(1160), Some(1200), Some(1210), Some(1260)} }

SeriesSemana ==
    { Serie(n, MedidaBase, ini, MedidaBase, fim) :
        n \in 0..MaxRegistros,
        ini \in { [MedidaBase EXCEPT !.Peso = p, !.BF_Atual = b] :
                    p \in {None, Some(8000)}, b \in {None, Some(1200)} },
        fim \in MedidasSemana }

InitSemana ==
    /\ df_historico \in SeriesSemana
    /\ atleta = AtletaBase
    /\ metas \in {MetasBulking, MetasCutting, EmptyDict}
    /\ fase \in {"Bulking", "Cutting", "Pre-Contest (Cutting)",
                 "Recomposicao Corporal", "Peak Week"}
    /\ resultado = None
    /\ SemPrescricao
    /\ SemTela
    /\ SemPeriodizacao
    /\ SemTendencias
    /\ duplo_acima = {}
    /\ SemEscala
    /\ SemDieta
    /\ SemRegistros
    /\ SemManual
    /\ SemChamadas

AvaliarResultadosSemana ==
    /\ resultado = None
    /\ resultado' = Some(avaliar_resultados_semana(df_historico, metas, fase))
    /\ UNCHANGED <<df_historico, atleta, prescricao, metas, fase, varsUI, varsFase, tendencias, varsEscala, varsRegistros, varsManual, chamadas, dieta>>

NextSemana == AvaliarResultadosSemana

SpecSemana == InitSemana /\ [][NextSemana]_vars

\* the rows of df that carry both a weight and a body-fat%
RegistrosValidos(df) ==
    { i \in 1..Len(df) : df[i].Peso # None /\ df[i].BF_Atual # None }

TemLista(r) == "ajustes" \in DOMAIN r

Sobe(ajustes) == \E i \in 1..Len(ajustes) : ajustes[i].delta_calorias > 0

Desce(ajustes) == \E i \in 1..Len(ajustes) : ajustes[i].delta_calorias < 0

\* the resolution options a result carries
OpcoesDe(r) ==
    IF TemLista(r) /\ r.conflitos # <<>> THEN r.conflitos[1].opcoes ELSE <<>>

----------------------------------------------------------------------------
(* C2 *)

\* C2: when the generated adjustments hold a positive and a negative calorie
\* delta the status is conflict and the result carries 2 to 3 options with
\* pairwise different labels and deltas; a Bulking week with gain below the
\* minimum target and fat-mass gain above its cap is such a conflict.
C2_ConflictOptions ==
    \A r \in resultado :
        /\ (TemLista(r) /\ Sobe(r.ajustes) /\ Desce(r.ajustes)) =>
              /\ r.status = "conflito"
              /\ Len(r.conflitos) = 1
              /\ Len(OpcoesDe(r)) \in 2..3
              /\ \A i, j \in 1..Len(OpcoesDe(r)) :
                    i # j => /\ OpcoesDe(r)[i].label # OpcoesDe(r)[j].label
                             /\ OpcoesDe(r)[i].delta_calorias
                                    # OpcoesDe(r)[j].delta_calorias
        /\ (/\ TemLista(r) /\ fase = "Bulking"
            /\ Menor(r.delta_peso, Get(metas, "ganho_peso_min", 0))
            /\ Maior(r.delta_fm, Get(metas, "ganho_fm_max", 9900))) =>
              r.status = "conflito" /\ Len(OpcoesDe(r)) >= 2

\* a Bulking week with +0.05 kg (minimum 0.10) and fat mass above its cap
C2_Witness ==
    \E r \in resultado :
        /\ fase = "Bulking" /\ metas = MetasBulking
        /\ TemLista(r) /\ r.delta_peso = Some(5) /\ Maior(r.delta_fm, 8)
        /\ r.status = "conflito" /\ Len(OpcoesDe(r)) = 3

\* a Cutting conflict with its two options
C2_CuttingConflict ==
    \E r \in resultado :
        fase = "Cutting" /\ r.status = "conflito" /\ Len(OpcoesDe(r)) = 2

----------------------------------------------------------------------------
(* C3 *)

\* C3: a conflict result does not also return the opposing recommendations:
\* its adjustment list does not hold both a positive and a negative delta.
C3_NoOpposingAdjustments ==
    \A r \in resultado :
        r.status = "conflito" => ~(Sobe(r.ajustes) /\ Desce(r.ajustes))

----------------------------------------------------------------------------
(* C5 *)

\* C5: with fewer than 7 records that have both a weight and a body-fat%,
\* the status is insufficient and no other field is populated.
C5_InsufficientBelowSevenValid ==
    \A r \in resultado :
        Cardinality(RegistrosValidos(df_historico)) < 7 =>
            /\ r.status = "insuficiente"
            /\ ~TemLista(r)
            /\ DOMAIN r \subseteq {"status", "msg"}

\* what the code guarantees: fewer than 7 rows give insufficient
C5_InsufficientBelowSevenRows ==
    \A r \in resultado :
        Len(df_historico) < 7 <=> r.status = "insuficiente"

----------------------------------------------------------------------------
(* C6 *)

\* C6: the status is one of the four; on_track exactly when the adjustment
\* list is empty and there is no conflict, adjustments_needed ("ok" in the
\* code) exactly when the list is non-empty and there is no conflict, and
\* resolution options are present exactly when the status is conflict.
C6_StatusPartition ==
    \A r \in resultado :
        /\ r.status \in {"insuficiente", "on_track", "ok", "conflito"}
        /\ r.status = "insuficiente" <=> ~TemLista(r)
        /\ TemLista(r) =>
              /\ r.status = "on_track" <=> (r.ajustes = <<>> /\ r.conflitos = <<>>)
              /\ r.status = "ok" <=> (r.ajustes # <<>> /\ r.conflitos = <<>>)
        /\ r.status = "conflito" <=> OpcoesDe(r) # <<>>

\* a week with two adjustments in the same direction and no conflict
C6_Witness ==
    \E r \in resultado :
        /\ r.status = "ok" /\ Len(r.ajustes) = 2 /\ r.conflitos = <<>>
        /\ ~Sobe(r.ajustes)

\* a week inside its targets
C6_OnTrack ==
    \E r \in resultado :
        /\ r.status = "on_track" /\ r.delta_peso = Some(20) /\ fase = "Bulking"
        /\ metas = MetasBulking

----------------------------------------------------------------------------
(* The weekly-evaluation tab: one action per script run *)

\* st.radio(options=labels, key="conflito_prioridade"): no index is passed,
\* so the first option is preselected until the session holds a choice that
\* is one of the options
Radio(labels, guardado) ==
    IF guardado # None /\ \E i \in 1..Len(labels) : labels[i] = Val(guardado)
    THEN Val(guardado)
    ELSE labels[1]

\* everything tab_avaliacao_semanal shows below the week's metrics
Renderizar(r, guardado) ==
    IF r.status = "insuficiente"
    THEN [TelaVazia EXCEPT !.secao = "insuficiente"]
    ELSE IF r.status = "conflito" /\ r.conflitos # <<>>
    THEN LET opcoes  == r.conflitos[1].opcoes
             labels  == [i \in 1..Len(opcoes) |-> opcoes[i].label]
             escolha == Radio(labels, guardado)
             op_sel  == opcoes[CHOOSE i \in 1..Len(opcoes) : labels[i] = escolha]
         IN  [secao |-> "conflito", opcao |-> Some(op_sel.label),
              ajuste |-> Some(op_sel.delta_calorias), ajustes |-> <<>>]
    ELSE IF r.status = "on_track"
    THEN [TelaVazia EXCEPT !.secao = "on_track"]
    ELSE IF r.ajustes # <<>>
    THEN [TelaVazia EXCEPT !.secao = "ajustes", !.ajustes = r.ajustes]
    ELSE TelaVazia

\* one run of tab_avaliacao_semanal(atleta, df_historico, fase)
TabAvaliacaoSemanal(guardado) ==
    LET m == calcular_metas_semana(atleta)
        r == avaliar_resultados_semana(df_historico, m, fase)
        t == Renderizar(r, guardado)
    IN  /\ metas' = m
        /\ resultado' = Some(r)
        /\ tela' = t
        /\ conflito_prioridade' = IF t.secao = "conflito" THEN t.opcao ELSE guardado

\* the athlete opens the tab (or the script reruns for another reason)
AbrirAvaliacaoSemanal ==
    /\ TabAvaliacaoSemanal(conflito_prioridade)
    /\ UNCHANGED <<df_historico, atleta, prescricao, fase, atleta_escolheu, varsFase, tendencias, varsEscala, varsRegistros, varsManual, chamadas, dieta>>

\* the athlete clicks an option of the radio: the session takes the label and
\* the script reruns
EscolherPrioridade ==
    /\ tela.secao = "conflito"
    /\ \E r \in resultado : \E i \in 1..Len(OpcoesDe(r)) :
          TabAvaliacaoSemanal(Some(OpcoesDe(r)[i].label))
    /\ atleta_escolheu' = TRUE
    /\ UNCHANGED <<df_historico, atleta, prescricao, fase, varsFase, tendencias, varsEscala, varsRegistros, varsManual, chamadas, dieta>>

AtletasAvaliacao ==
    { [AtletaBase EXCEPT !.anos_treino = n, !.uso_peds = u, !.fase_sugerida = f] :
        n \in {1, 3, 5}, u \in BOOLEAN,
        f \in {"Bulking", "Cutting", "Recomposicao Corporal"} }

InitAvaliacaoUI ==
    /\ df_historico \in SeriesSemana
    /\ atleta \in AtletasAvaliacao
    /\ fase = atleta.fase_sugerida
    /\ metas = EmptyDict
    /\ resultado = None
    /\ SemTela
    /\ SemPrescricao
    /\ SemPeriodizacao
    /\ SemTendencias
    /\ duplo_acima = {}
    /\ SemEscala
    /\ SemDieta
    /\ SemRegistros
    /\ SemManual
    /\ SemChamadas

NextAvaliacaoUI == AbrirAvaliacaoSemanal \/ EscolherPrioridade

SpecAvaliacaoUI == InitAvaliacaoUI /\ [][NextAvaliacaoUI]_vars

----------------------------------------------------------------------------
(* C4 *)

\* C4: a conflict is never auto-resolved: no calorie delta is presented as
\* the adjustment to apply until the athlete has selected one of the options.
C4_NoDefaultChoice ==
    (tela.secao = "conflito" /\ tela.ajuste # None) => atleta_escolheu

----------------------------------------------------------------------------
(* Specification of the phase engine *)

MedidasFaseAntigas ==
    { [MedidaBase EXCEPT !.Peso = p, !.Fase_Historica = f] :
        p \in {None, Some(8000)}, f \in {None, Some("Bulking"), Some("Cutting")} }

MedidasFaseRecentes ==
    { [MedidaBase EXCEPT !.Peso = p, !.Fase_Historica = f] :
        p \in {None, Some(7900), Some(7919), Some(7921), Some(8000), Some(8015),
               Some(8017), Some(8100)},
        f \in {None, Some("Cutting")} }

SeriesFase ==
    { Serie(n, velho, [MedidaBase EXCEPT !.Fase_Historica = fim.Fase_Historica],
            [MedidaBase EXCEPT !.Fase_Historica = fim.Fase_Historica], fim) :
        n \in 0..MaxRegistros, velho \in MedidasFaseAntigas,
        fim \in MedidasFaseRecentes }

InitFase ==
    /\ df_historico \in SeriesFase
    /\ atleta \in { [AtletaBase EXCEPT !.bf_atual = b] : b \in {1200, 1500, 2200} }
    /\ hoje = 20
    /\ data_competicao \in {15, 20, 21, 27, 28, 138, 139, 140}
    /\ sexo \in {"Masculino", "Feminino"}
    /\ periodizacao = None
    /\ SemPrescricao
    /\ SemAvaliacao
    /\ SemTela
    /\ SemTendencias
    /\ duplo_acima = {}
    /\ SemEscala
    /\ SemDieta
    /\ SemRegistros
    /\ SemManual
    /\ SemChamadas

SugerirFaseETimeline ==
    /\ periodizacao = None
    /\ periodizacao' = Some(sugerir_fase_e_timeline(hoje, data_competicao,
                                atleta.bf_atual, sexo, df_historico))
    /\ UNCHANGED <<df_historico, atleta, prescricao, metas, fase, resultado,
                   varsUI, hoje, data_competicao, sexo, tendencias, varsEscala, varsRegistros, varsManual, chamadas, dieta>>

NextFase == SugerirFaseETimeline

SpecFase == InitFase /\ [][NextFase]_vars

\* the projected spans of a timeline
Projetados(timeline) == SelectSeq(timeline, LAMBDA sp : sp.tipo = "Projecao")

----------------------------------------------------------------------------
(* C7 *)

\* C7 as stated: with the competition exactly 112+7 = 119 days after today
\* and body-fat% below the sex ceiling, the current phase is Bulking and the
\* timeline has exactly 3 projected spans.
C7_BulkingAt119Days ==
    \A r \in periodizacao :
        (/\ data_competicao - hoje = 119
         /\ atleta.bf_atual < (IF sexo = "Masculino" THEN 1500 ELSE 2200)) =>
            r.fase_atual = "Bulking" /\ Len(Projetados(r.timeline)) = 3

\* C7 amended: with the competition more than 119 days after today and
\* body-fat% below the sex ceiling (15% male, 22% female) the current phase is
\* Bulking and the projected spans are exactly off-phase, Cutting, PeakWeek;
\* at exactly 119 days the current phase is Cutting and the projected spans
\* are exactly Cutting and PeakWeek.
C7_BulkingBeyond119Days ==
    \A r \in periodizacao :
        LET pr       == Projetados(r.timeline)
            magro    == atleta.bf_atual < (IF sexo = "Masculino" THEN 1500 ELSE 2200)
        IN  /\ (data_competicao - hoje > 119 /\ magro) =>
                  /\ r.fase_atual = "Bulking"
                  /\ [i \in 1..Len(pr) |-> pr[i].Fase]
                        = <<"Bulking", "Cutting", "Peak Week">>
            /\ data_competicao - hoje = 119 =>
                  /\ r.fase_atual = "Cutting"
                  /\ [i \in 1..Len(pr) |-> pr[i].Fase] = <<"Cutting", "Peak Week">>

\* a woman at 15% body fat, 120 days out: Bulking with three projected spans
C7_Witness ==
    \E r \in periodizacao :
        /\ data_competicao - hoje = 120 /\ sexo = "Feminino"
        /\ atleta.bf_atual = 1500
        /\ r.fase_atual = "Bulking" /\ Len(Projetados(r.timeline)) = 3

----------------------------------------------------------------------------
(* C8 *)

\* C8: with the competition on or before today the current phase is
\* PostCompetition and the only projected span is a PostCompetition span of
\* 30 days starting today.
C8_PostCompetition ==
    \A r \in periodizacao :
        data_competicao <= hoje =>
            /\ r.fase_atual = "Pos-Campeonato / Transicao"
            /\ Projetados(r.timeline)
                  = <<Span("Projecao", "Pos-Campeonato / Transicao", hoje, hoje + 30)>>

\* the competition is today and the series carries history
C8_Witness ==
    \E r \in periodizacao :
        /\ data_competicao = hoje
        /\ Len(r.timeline) > 1
        /\ r.fase_atual = "Pos-Campeonato / Transicao"

----------------------------------------------------------------------------
(* C9 *)

\* C9: the flags always carry a boolean plateau value, False when the
\* weight-loss rate is undefined.
C9_PlateauAlwaysBoolean ==
    \A r \in periodizacao :
        /\ "plato_metabolico" \in DOMAIN r.flags
        /\ r.flags["plato_metabolico"] \in BOOLEAN
        /\ ("taxa_perda_peso" \notin DOMAIN r.flags \/ r.flags["taxa_perda_peso"] = None)
              => r.flags["plato_metabolico"] = FALSE

\* what the code guarantees: the plateau flag is there exactly when the
\* series has 14 rows
C9_PlateauOnlyFrom14Rows ==
    \A r \in periodizacao :
        "plato_metabolico" \in DOMAIN r.flags <=> Len(df_historico) >= 14

----------------------------------------------------------------------------
(* Specification of the trend extractors: each extractor is called once on *)
(* the series drawn in Init (the weight-loss rate is computed inside the   *)
(* phase engine).                                                          *)

SeriesTendencias ==
    { Serie(n, velho, meio, meio, fim) :
        n \in 0..MaxRegistros,
        velho \in { [MedidaBase EXCEPT !.Carga_Treino = c, !.VFC_Atual = v] :
                      c \in {None, Some(0), Some(10)}, v \in {None, Some(60)} },
        meio \in { [MedidaBase EXCEPT !.VFC_Atual = v] : v \in {None, Some(60)} },
        fim \in { [MedidaBase EXCEPT !.Carga_Treino = c, !.VFC_Atual = v] :
                      c \in {Some(0), Some(20)}, v \in {None, Some(0), Some(40)} } }

InitTendencias ==
    /\ df_historico \in SeriesTendencias
    /\ atleta = AtletaBase
    /\ hoje = 20
    /\ data_competicao = 140
    /\ sexo = "Masculino"
    /\ periodizacao = None
    /\ tendencias = [acwr |-> None, cv |-> None]
    /\ SemPrescricao
    /\ SemAvaliacao
    /\ SemTela
    /\ duplo_acima \in SUBSET {df_historico}
    /\ SemEscala
    /\ SemDieta
    /\ SemRegistros
    /\ SemManual
    /\ SemChamadas

CalcularAcwr ==
    /\ tendencias.acwr = None
    /\ tendencias' = [tendencias EXCEPT !.acwr = Some(calcular_acwr(df_historico))]
    /\ UNCHANGED <<df_historico, atleta, prescricao, metas, fase, resultado,
                   varsUI, varsFase, varsEscala, varsRegistros, varsManual, chamadas, dieta>>

CalcularCvVfc ==
    /\ tendencias.cv = None
    /\ tendencias' = [tendencias EXCEPT !.cv = Some(calcular_cv_vfc(df_historico))]
    /\ UNCHANGED <<df_historico, atleta, prescricao, metas, fase, resultado,
                   varsUI, varsFase, varsEscala, varsRegistros, varsManual, chamadas, dieta>>

NextTendencias == CalcularAcwr \/ CalcularCvVfc \/ SugerirFaseETimeline

SpecTendencias == InitTendencias /\ [][NextTendencias]_vars

\* the HRV readings present in the series
LeiturasVfc(df) == { i \in 1..Len(df) : df[i].VFC_Atual # None }

----------------------------------------------------------------------------
(* C10 *)

\* C10: a series of fewer than 7 records gives no weight-loss rate and no
\* ACWR, a series with fewer than 5 HRV values gives no HRV-CV: each
\* extractor reports insufficient data, never a number, and the rate shown
\* to the athlete is "insufficient data".
C10_InsufficientBelowFloor ==
    /\ \A r \in tendencias.acwr :
          Len(df_historico) < 7 => r.val = None
    /\ \A r \in tendencias.cv :
          Cardinality(LeiturasVfc(df_historico)) < 5 => r.val = None
    /\ \A r \in periodizacao :
          Len(df_historico) < 7 =>
              /\ "taxa_perda_peso" \notin DOMAIN r.flags
              /\ TaxaExibida(r.flags) = "Dados insuficientes"

\* six records: all three extractors were called and none gave a number
C10_Witness ==
    /\ Len(df_historico) = 6
    /\ Cardinality(LeiturasVfc(df_historico)) = 6
    /\ \E r \in tendencias.acwr : r.val = None
    /\ \E r \in tendencias.cv : r.val = None
    /\ \E r \in periodizacao : r.flags = EmptyDict

\* four HRV values in a series long enough for everything else
C10_FourHrvValues ==
    /\ Len(df_historico) = 10
    /\ Cardinality(LeiturasVfc(df_historico)) = 4
    /\ \E r \in tendencias.cv : r.val = None
    /\ \E r \in tendencias.acwr : r.val # None

----------------------------------------------------------------------------
(* Specification of the weight-loss rate: series whose rows are `passo`    *)
(* days apart, handed to the phase engine.                                 *)

\* n rows dated passo, 2*passo, ..., newest first: the newest weighs p_fim,
\* the row dated 14 days before it (when there is one) p_14, the others p_velho
SerieEspacada(n, passo, p_velho, p_14, p_fim) ==
    Reverse([i \in 1..n |->
        Registro(i * passo,
                 IF i = n THEN p_fim
                 ELSE IF (n - i) * passo = 14 THEN p_14
                 ELSE p_velho,
                 Some(1200), Some(10), Some(60), None)])

SeriesTaxa ==
    { SerieEspacada(n, passo, p_velho, p_14, p_fim) :
        n \in 0..MaxRegistros, passo \in {1, 2, 7},
        p_velho \in {None, Some(10000)},
        p_14 \in {None, Some(10000), Some(9800)},
        p_fim \in {None, Some(9500), Some(10000), Some(10020), Some(10100)} }

InitTaxa ==
    /\ df_historico \in SeriesTaxa
    /\ atleta = AtletaBase
    /\ hoje = 110
    /\ data_competicao = 140
    /\ sexo = "Masculino"
    /\ periodizacao = None
    /\ SemPrescricao
    /\ SemAvaliacao
    /\ SemTela
    /\ SemTendencias
    /\ duplo_acima = {}
    /\ SemEscala
    /\ SemDieta
    /\ SemRegistros
    /\ SemManual
    /\ SemChamadas

NextTaxa == SugerirFaseETimeline

SpecTaxa == InitTaxa /\ [][NextTaxa]_vars

\* the rows of df that carry a weight
ComPeso(df) == { i \in 1..Len(df) : df[i].Peso # None }

\* the rows of df dated 14 days before its newest row (df is newest first)
Ha14Dias(df) == { i \in ComPeso(df) : df[1].Data - df[i].Data = 14 }

----------------------------------------------------------------------------
(* C11 *)

\* C11: for a series of at least 7 records with a weight, whose newest
\* record and the record 14 days before it carry a weight, the weight-loss
\* rate is defined and equals ((w14 - w0) / w14) * 100 / 2.
C11_RateFromSevenRecords ==
    \A r \in periodizacao :
        (/\ Cardinality(ComPeso(df_historico)) >= 7
         /\ 1 \in ComPeso(df_historico)
         /\ Ha14Dias(df_historico) # {}) =>
            LET w14 == Val(df_historico[CHOOSE i \in Ha14Dias(df_historico) : TRUE].Peso)
                w0  == Val(df_historico[1].Peso)
            IN  /\ "taxa_perda_peso" \in DOMAIN r.flags
                /\ r.flags["taxa_perda_peso"] = Some(Round((w14 - w0) * 50000, w14))

\* what the code computes: from 14 rows on, the rate between the 14th newest
\* row and the newest one, whatever their dates
C11_RateFrom14thNewestRow ==
    \A r \in periodizacao :
        IF Len(df_historico) >= 14
        THEN LET p_ini == df_historico[14].Peso
                 p_fim == df_historico[1].Peso
             IN  r.flags["taxa_perda_peso"] =
                    IF None \in {p_ini, p_fim} THEN None
                    ELSE Some(Round((Val(p_ini) - Val(p_fim)) * 50000, Val(p_ini)))
        ELSE "taxa_perda_peso" \notin DOMAIN r.flags

----------------------------------------------------------------------------
(* C12 *)

\* C12: with at least 5 HRV values present (not all of them zero) the
\* HRV extractor reports a numeric coefficient of variation.
C12_CvFromFiveValues ==
    \A r \in tendencias.cv :
        (/\ Cardinality(LeiturasVfc(df_historico)) >= 5
         /\ \E i \in LeiturasVfc(df_historico) : Val(df_historico[i].VFC_Atual) > 0)
            => r.val # None

\* what the code guarantees: a number exactly when the series has 7 rows and
\* 7 HRV values whose mean is not zero
C12_CvFromSevenValues ==
    \A r \in tendencias.cv :
        r.val # None <=>
            /\ Len(df_historico) >= 7
            /\ Cardinality(LeiturasVfc(df_historico)) >= 7
            /\ \E i \in 1..Len(df_historico) :
                  /\ i \in LeiturasVfc(df_historico)
                  /\ Cardinality({j \in LeiturasVfc(df_historico) : j < i}) < 7
                  /\ Val(df_historico[i].VFC_Atual) > 0

----------------------------------------------------------------------------
(* Specification of the ACWR under scaling: the extractor is called on the *)
(* series drawn in Init and on the same series with every load multiplied  *)
(* by fator.                                                               *)

\* df with every load multiplied by k
Escalar(df, k) ==
    [i \in 1..Len(df) |->
        [df[i] EXCEPT !.Carga_Treino = { k * c : c \in df[i].Carga_Treino }]]

SeriesEscala ==
    { Serie(n, velho, MedidaBase, MedidaBase, fim) :
        n \in 0..MaxRegistros,
        velho \in { [MedidaBase EXCEPT !.Carga_Treino = c] :
                      c \in {None, Some(0), Some(10), Some(13), Some(15)} },
        fim \in { [MedidaBase EXCEPT !.Carga_Treino = c] :
                      c \in {Some(0), Some(10), Some(20)} } }

InitEscala ==
    /\ df_historico \in SeriesEscala
    /\ fator \in {3, 7}
    /\ duplo_acima \in SUBSET {df_historico, Escalar(df_historico, fator)}
    /\ acwr_escalado = None
    /\ tendencias = [acwr |-> None, cv |-> None]
    /\ atleta = AtletaBase
    /\ SemPrescricao
    /\ SemAvaliacao
    /\ SemTela
    /\ SemPeriodizacao
    /\ SemDieta
    /\ SemRegistros
    /\ SemManual
    /\ SemChamadas

CalcularAcwrEscalado ==
    /\ acwr_escalado = None
    /\ acwr_escalado' = Some(calcular_acwr(Escalar(df_historico, fator)))
    /\ UNCHANGED <<df_historico, atleta, prescricao, metas, fase, resultado,
                   varsUI, varsFase, tendencias, duplo_acima, fator, dieta,
                    varsRegistros, varsManual, chamadas>>

NextEscala == CalcularAcwr \/ CalcularAcwrEscalado

SpecEscala == InitEscala /\ [][NextEscala]_vars

\* the loads of the acute window (last 7 rows) and of the chronic window
\* (last min(28, len) rows), oldest first
Aguda7m(df) ==
    LastN(Reverse([i \in 1..Len(df) |-> FillNa0(df[i].Carga_Treino)]), 7)

CronicaM(df) ==
    LastN(Reverse([i \in 1..Len(df) |-> FillNa0(df[i].Carga_Treino)]), Min(28, Len(df)))

----------------------------------------------------------------------------
(* C13 *)

\* C13: multiplying every load by the same positive factor leaves the
\* ratio and the band unchanged, and the ratio is exactly 1.0 when the acute
\* and the chronic window have the same non-zero mean.
C13_ScaleInvariant ==
    /\ \A r \in tendencias.acwr : \A e \in acwr_escalado : r = e
    /\ \A r \in tendencias.acwr :
          (/\ Len(df_historico) >= 7
           /\ SumSeq(CronicaM(df_historico)) > 0
           /\ SumSeq(Aguda7m(df_historico)) * Len(CronicaM(df_historico))
                 = 7 * SumSeq(CronicaM(df_historico)))
              => r.val = Some(1000)

\* what the code guarantees: the two ratios differ only when the exact
\* ratio is a decimal tie, and then by one thousandth; equal means give 1.0
C13_ScaleInvariantOffTies ==
    /\ \A r \in tendencias.acwr : \A e \in acwr_escalado :
          LET num == SumSeq(Aguda7m(df_historico)) * Len(CronicaM(df_historico)) * 1000
              den == 7 * SumSeq(CronicaM(df_historico))
          IN  r # e =>
                /\ (2 * num) % den = 0 /\ num % den # 0
                /\ Val(r.val) - Val(e.val) \in {-1, 1}
    /\ \A r \in tendencias.acwr :
          (/\ Len(df_historico) >= 7
           /\ SumSeq(CronicaM(df_historico)) > 0
           /\ SumSeq(Aguda7m(df_historico)) * Len(CronicaM(df_historico))
                 = 7 * SumSeq(CronicaM(df_historico)))
              => r.val = Some(1000)

----------------------------------------------------------------------------
(* Nutrition engine.  Calories are in thousandths of a kcal, macronutrients *)
(* in thousandths of a gram; the table holds whole kcal and whole grams.    *)

\* atleta.lbm in millionths of a kg
Lbm(a) == a.peso * (10000 - a.bf_atual)

\* 370 + 21.6 * lbm
calcular_tmb_katch_mcardle(peso, bf) ==
    370000 + MulDiv(peso * (10000 - bf), 216, 10000)

\* a get that grows with the number of calls made before
calcular_get_ComMemoria(tmb) == (tmb * 155) \div 100 + Len(chamadas) * 1000

\* tmb * nivel, nivel = 1.55
calcular_get(tmb) == (tmb * 155) \div 100

aplicar_termogenese_adaptativa(calorias, semanas_deficit) ==
    IF semanas_deficit <= 4 THEN calorias
    ELSE calorias - Min((semanas_deficit - 4) * 15, 200) * 1000

\* semanas_deficit: the rows of the history labelled Cutting, in sevens
SemanasDeficit(a, df) ==
    IF df # <<>> /\ a.fase_sugerida \in {"Cutting", "Pre-Contest (Cutting)"}
    THEN Len(SelectSeq(df, LAMBDA r : r.Fase_Historica = Some("Cutting"))) \div 7
    ELSE 0

\* one row of the weekly table
DiaPlano(estrategia, calorias, carb, prot, gord) ==
    [Estrategia |-> estrategia, Calorias |-> Round(calorias, 1000),
     Carb |-> Round(carb, 1000), Prot |-> Round(prot, 1000),
     Gord |-> Round(gord, 1000)]

\* the remainder with no floor
Carb4_SemPiso(piso, calorias, prot, gord) == calorias - prot * 4 - gord * 9

\* max(piso, (calorias - prot*4 - gord*9) / 4) in thousandths of a gram,
\* times 4
Carb4(piso, calorias, prot, gord) ==
    LET c4 == calorias - prot * 4 - gord * 9
    IN  IF c4 > piso * 4000 THEN c4 ELSE piso * 4000

\* the Cutting baseline: cal_base
CalBase(a, get, semanas_deficit) ==
    aplicar_termogenese_adaptativa(
        get - 500000 - (IF a.estagnado_dias >= 7 THEN 200000 ELSE 0),
        semanas_deficit)

calcular_macros_semana(a, df, flags) ==
    LET tmb == calcular_tmb_katch_mcardle(a.peso, a.bf_atual)
        get == calcular_get(tmb)
        semanas_deficit == SemanasDeficit(a, df)
        sem_alertas == [plato |-> FALSE, termogenese |-> None]
    IN  IF a.fase_sugerida = "Bulking"
        THEN LET surplus  == IF a.uso_peds THEN 500 ELSE 300
                 calorias == get + surplus * 1000
                 prot == MulDiv(Lbm(a), IF a.uso_peds THEN 28 ELSE 22, 10000)
                 gord == a.peso * 10
                 dia  == [Estrategia |-> "Superavit Base",
                          Calorias |-> Round(calorias, 1000),
                          Carb |-> Round(Carb4(50, calorias, prot, gord), 4000),
                          Prot |-> Round(prot, 1000), Gord |-> Round(gord, 1000)]
             IN  [plano |-> [i \in 1..7 |-> dia],
                  motivo |-> [fase |-> "Bulking", kcal |-> surplus],
                  alertas |-> sem_alertas]
        ELSE IF a.fase_sugerida \in {"Cutting", "Pre-Contest (Cutting)"}
        THEN LET cal_base == CalBase(a, get, semanas_deficit)
                 prot == MulDiv(Lbm(a), 31, 10000)
                 gord == a.peso * 7
                 carb_low4 == Carb4(30, cal_base, prot, gord)
                 carb_ref4 == carb_low4 + (get - cal_base)
                 low == [Estrategia |-> "Low Carb (Deficit)",
                         Calorias |-> Round(cal_base, 1000),
                         Carb |-> Round(carb_low4, 4000),
                         Prot |-> Round(prot, 1000), Gord |-> Round(gord, 1000)]
                 ref == [Estrategia |-> "Refeed (Manutencao)",
                         Calorias |-> Round(get, 1000),
                         Carb |-> Round(carb_ref4, 4000),
                         Prot |-> Round(prot, 1000), Gord |-> Round(gord, 1000)]
             IN  [plano |-> [i \in 1..7 |-> IF i - 1 < 5 THEN low ELSE ref],
                  motivo |-> [fase |-> "Cutting 5:2",
                              kcal |-> Round(get - cal_base, 1000)],
                  alertas |-> [plato |-> a.estagnado_dias >= 7,
                               termogenese |->
                                   IF semanas_deficit > 4
                                   THEN Some(Min((semanas_deficit - 4) * 15, 200))
                                   ELSE None]]
        ELSE IF a.fase_sugerida = "Peak Week"
        THEN LET prot_d == a.peso * 30
                 gord_d == a.peso * 8
                 carb_d == 50000
                 cal_d  == prot_d * 4 + gord_d * 9 + carb_d * 4
                 prot_u == a.peso * 20
                 gord_u == a.peso * 4
                 carb_u == a.peso * 80
                 cal_u  == prot_u * 4 + gord_u * 9 + carb_u * 4
                 carb_m4 == LET c4 == get - prot_d * 4 - gord_u * 9
                            IN  IF c4 > 0 THEN c4 ELSE 0
                 estrats == <<"Deplecao Extrema", "Deplecao Extrema", "Deplecao Extrema",
                              "Carb-Up (Loading)", "Carb-Up (Loading)",
                              "Spillover Check", "Dia do Show">>
             IN  [plano |-> [i \in 1..7 |->
                      IF i - 1 < 3
                      THEN DiaPlano(estrats[i], cal_d, carb_d, prot_d, gord_d)
                      ELSE IF i - 1 < 5
                      THEN DiaPlano(estrats[i], cal_u, carb_u, prot_u, gord_u)
                      ELSE [Estrategia |-> estrats[i], Calorias |-> Round(get, 1000),
                            Carb |-> Round(carb_m4, 4000),
                            Prot |-> Round(prot_d, 1000),
                            Gord |-> Round(gord_u, 1000)]],
                  motivo |-> [fase |-> "Peak Week", kcal |-> 0],
                  alertas |-> sem_alertas]
        ELSE LET calorias == get - 200000
                 prot == MulDiv(Lbm(a), 25, 10000)
                 gord == a.peso * 9
                 dia  == [Estrategia |-> "Leve Deficit",
                          Calorias |-> Round(calorias, 1000),
                          Carb |-> Round(Carb4(30, calorias, prot, gord), 4000),
                          Prot |-> Round(prot, 1000), Gord |-> Round(gord, 1000)]
             IN  [plano |-> [i \in 1..7 |-> dia],
                  motivo |-> [fase |-> "Recomposicao", kcal |-> 200],
                  alertas |-> sem_alertas]

----------------------------------------------------------------------------
(* Specification of the nutrition engine: it is called once, either on the *)
(* athlete drawn in Init or the way render_app calls it, on the athlete    *)
(* built from the newest record and the phase engine's result.             *)

\* A history of rows `passo` days apart, newest first: 7*w1 rows labelled
\* Cutting, then (when w1 > 0) 7 rows labelled Bulking, then 7*w2 + extra rows
\* labelled Cutting; every row weighs 80 kg but the newest, which weighs p_fim
SerieCutting(w1, w2, extra, passo, p_fim) ==
    LET gap == IF w1 > 0 THEN 7 ELSE 0
        n   == 7 * w1 + gap + 7 * w2 + extra
    IN  Reverse([i \in 1..n |->
            Registro(i * passo, IF i = n THEN p_fim ELSE Some(8000),
                     Some(1200), Some(10), Some(60),
                     IF i > 7 * w1 /\ i <= 7 * w1 + gap
                     THEN Some("Bulking") ELSE Some("Cutting"))])

SeriesNutricao ==
    { SerieCutting(w1, w2, extra, passo, p_fim) :
        w1 \in {0, 3}, w2 \in 0..MaxSemanas, extra \in {0, 6}, passo \in {1, 2},
        p_fim \in {None, Some(0), Some(7900), Some(8000)} }

AtletasNutricao ==
    { [AtletaBase EXCEPT !.peso = p, !.fase_sugerida = f, !.estagnado_dias = e] :
        p \in {-8000, 0, 8000},
        f \in {"Bulking", "Cutting", "Peak Week", "Recomposicao Corporal"},
        e \in {0, 7} }

InitNutricao ==
    /\ df_historico \in SeriesNutricao
    /\ atleta \in AtletasNutricao
    /\ hoje = 400
    /\ data_competicao \in {430, 600}
    /\ sexo = "Masculino"
    /\ periodizacao = None
    /\ dieta = None
    /\ duplo_acima = {}
    /\ SemEscala
    /\ SemPrescricao
    /\ SemAvaliacao
    /\ SemTela
    /\ SemTendencias
    /\ SemRegistros
    /\ SemManual
    /\ SemChamadas

\* calcular_macros_semana(atleta, df_historico, flags) on the athlete as drawn
CalcularMacrosSemana ==
    /\ dieta = None
    /\ dieta' = Some(calcular_macros_semana(atleta, df_historico, EmptyDict))
    /\ UNCHANGED <<df_historico, atleta, prescricao, metas, fase, resultado,
                   varsUI, varsFase, tendencias, varsEscala, varsRegistros, varsManual, chamadas>>

\* float(x or 0) or None
PositivoOuNone(x) == IF x = None \/ x = Some(0) THEN None ELSE x

\* x or padrao
Ou(x, padrao) == IF x = None THEN padrao ELSE Val(x)

\* the part of render_app from the newest record to the weekly table: the
\* weight and the body-fat% come from the newest record (80 kg and 12% when
\* absent or zero), the phase from the phase engine, estagnado_dias is 0
RenderApp ==
    /\ dieta = None
    /\ LET peso_atual == IF df_historico = <<>> THEN None
                         ELSE PositivoOuNone(df_historico[1].Peso)
           bf_atual   == IF df_historico = <<>> THEN None
                         ELSE PositivoOuNone(df_historico[1].BF_Atual)
           vfc_at     == IF df_historico = <<>> THEN None
                         ELSE PositivoOuNone(df_historico[1].VFC_Atual)
           r  == sugerir_fase_e_timeline(hoje, data_competicao, Ou(bf_atual, 1200),
                                         sexo, df_historico)
           at == [atleta EXCEPT !.peso = Ou(peso_atual, 8000),
                                !.bf_atual = Ou(bf_atual, 1200),
                                !.vfc_atual = Ou(vfc_at, 0),
                                !.fase_sugerida = r.fase_atual,
                                !.estagnado_dias = 0]
       IN  /\ periodizacao' = Some(r)
           /\ atleta' = at
           /\ dieta' = Some(calcular_macros_semana(at, df_historico, r.flags))
    /\ UNCHANGED <<df_historico, prescricao, metas, fase, resultado, varsUI,
                   hoje, data_competicao, sexo, tendencias, varsEscala, varsRegistros, varsManual, chamadas>>

NextNutricao == CalcularMacrosSemana \/ RenderApp

SpecNutricao == InitNutricao /\ [][NextNutricao]_vars

\* the weeks the history has been in Cutting without interruption up to its
\* newest row, by the dates of the rows (df is newest first)
SemanasConsecutivas(df) ==
    LET run == { k \in 1..Len(df) :
                   \A i \in 1..k : df[i].Fase_Historica = Some("Cutting") }
    IN  IF run = {} THEN 0
        ELSE LET k == CHOOSE x \in run : \A y \in run : y <= x
             IN  (df[1].Data - df[k].Data + 1) \div 7

EmCutting(a) == a.fase_sugerida \in {"Cutting", "Pre-Contest (Cutting)"}

\* kcal of the deficit days of the table the same athlete gets with no history
SemSupressao(a) == calcular_macros_semana(a, <<>>, EmptyDict).plano[1].Calorias

----------------------------------------------------------------------------
(* C14 *)

\* C14: with w consecutive weeks of Cutting history the baseline of the
\* deficit days (of an athlete with a positive weight) is min((w-4)*15, 200)
\* kcal below the unsuppressed baseline when w > 4 and equal to it when
\* w <= 4.
C14_SuppressionByWeeks ==
    \A d \in dieta :
        (EmCutting(atleta) /\ atleta.peso > 0) =>
            LET w == SemanasConsecutivas(df_historico)
            IN  SemSupressao(atleta) - d.plano[1].Calorias
                    = IF w > 4 THEN Min((w - 4) * 15, 200) ELSE 0

\* what the code guarantees: the same with w the number of rows labelled
\* Cutting anywhere in the history, divided by 7
C14_SuppressionByCuttingRows ==
    \A d \in dieta :
        (EmCutting(atleta) /\ atleta.peso > 0) =>
            LET w == SemanasDeficit(atleta, df_historico)
            IN  /\ SemSupressao(atleta) - d.plano[1].Calorias
                      = IF w > 4 THEN Min((w - 4) * 15, 200) ELSE 0
                /\ SemSupressao(atleta) - d.plano[1].Calorias <= 200

----------------------------------------------------------------------------
(* C15 *)

\* C15: the Cutting table is 5 low-carbohydrate deficit days and 2 refeed
\* days at maintenance, and (before any metabolic-adaptation suppression)
\* the deficit of the deficit days is 650 kcal when the phase engine's
\* plateau flag is set and 500 kcal when it is not.
C15_CuttingDeficit ==
    \A d \in dieta :
        EmCutting(atleta) =>
            /\ \A i \in 1..5 : d.plano[i].Estrategia = "Low Carb (Deficit)"
            /\ \A i \in 6..7 : d.plano[i].Estrategia = "Refeed (Manutencao)"
            /\ \A r \in periodizacao :
                  SemanasDeficit(atleta, df_historico) <= 4 =>
                      d.plano[6].Calorias - d.plano[1].Calorias
                          = IF Get(r.flags, "plato_metabolico", FALSE) THEN 650 ELSE 500

\* what the code guarantees: 5 deficit days and 2 refeed days; the deficit
\* is 500 kcal, 700 kcal when estagnado_dias >= 7, whatever the plateau flag
C15_CuttingDeficitByStagnation ==
    \A d \in dieta :
        (EmCutting(atleta) /\ SemanasDeficit(atleta, df_historico) <= 4) =>
            /\ \A i \in 1..5 : d.plano[i].Estrategia = "Low Carb (Deficit)"
            /\ \A i \in 6..7 : d.plano[i].Estrategia = "Refeed (Manutencao)"
            /\ d.plano[6].Calorias - d.plano[1].Calorias
                  = IF atleta.estagnado_dias >= 7 THEN 700 ELSE 500

----------------------------------------------------------------------------
(* C16 *)

\* the weight or the body-fat% the computation starts from is missing, zero
\* or negative: the fields of the athlete when the engine is called on it,
\* those of the newest record when render_app builds the athlete
EntradaInvalida ==
    IF periodizacao = None
    THEN atleta.peso <= 0 \/ atleta.bf_atual <= 0
    ELSE \/ df_historico = <<>>
         \/ ~Maior(df_historico[1].Peso, 0)
         \/ ~Maior(df_historico[1].BF_Atual, 0)

\* C16: with a missing, zero or negative weight or body-fat% no macro table
\* is returned; a validation error is reported instead.
C16_ValidatesPositive ==
    \A d \in dieta :
        EntradaInvalida => ("plano" \notin DOMAIN d /\ "erro" \in DOMAIN d)

----------------------------------------------------------------------------
(* The record store: table medidas_atleta and the form of tab_registros.   *)
(* A row is [id, data, peso]; the other columns are written the same way   *)
(* as peso.                                                                *)

MaxInsercoes == 3

DatasRegistro == {1, 2}

PesosRegistro == {Some(7900), Some(8000)}

varsMotor == <<df_historico, atleta, prescricao, metas, fase, resultado,
               varsUI, varsFase, tendencias, varsEscala, dieta, chamadas,
               varsManual>>

InitRegistros ==
    /\ df_historico = <<>>
    /\ atleta = AtletaBase
    /\ SemPeriodizacao
    /\ SemPrescricao
    /\ SemAvaliacao
    /\ SemTela
    /\ SemTendencias
    /\ duplo_acima = {}
    /\ SemEscala
    /\ SemDieta
    /\ SemRegistros
    /\ SemManual
    /\ SemChamadas

\* table("medidas_atleta").insert(payload): a row with a fresh id is added
\* whatever the rows the table already has
salvar_novo_registro(tabela, id, dados) ==
    tabela \cup {[id |-> id, data |-> dados.data, peso |-> dados.peso]}

\* table("medidas_atleta").update(payload).eq("id", record_id)
atualizar_registro(tabela, record_id, dados) ==
    { IF r.id = record_id
      THEN [id |-> r.id, data |-> dados.data, peso |-> dados.peso]
      ELSE r : r \in tabela }

\* table("medidas_atleta").delete().eq("id", record_id)
deletar_registro_unificado(tabela, record_id) ==
    { r \in tabela : r.id # record_id }

\* the rows a query "order by data desc limit 1" can answer with: the empty
\* answer on an empty table, else one of the rows of the newest date
Ultimos(tabela) ==
    IF tabela = {}
    THEN {{}}
    ELSE {{r} : r \in {q \in tabela : \A o \in tabela : o.data <= q.data}}

\* carregar_ultimo_registro: the outcomes of one call. The cached value when
\* the key is in the session; else the answer of the query, which is cached;
\* else, when the query raises, the empty dict, which is not cached.
carregar_ultimo_registro(cache, tabela) ==
    IF cache # None
    THEN {[valor |-> Val(cache), origem |-> "cache", cache |-> cache]}
    ELSE {[valor |-> u, origem |-> "consulta", cache |-> Some(u)] :
              u \in Ultimos(tabela)}
         \cup {[valor |-> {}, origem |-> "erro", cache |-> None]}

\* the call render_app makes at the start of every cycle
Leituras == carregar_ultimo_registro(ultimo_registro_cache, medidas_atleta)

LimparCache_Manter(cache) == cache

\* for k in ["ultimo_registro_cache","ultima_medida"]: session_state.pop(k),
\* which follows the write in the three functions that write the table
LimparCache(cache) == None

\* float(rec.get("peso") or 0): the value PASSO 1 writes into reg_peso from
\* the pending record, 0 when the record is None or has no weight
Campo(rec) ==
    IF \E r \in rec : r.peso # None
    THEN Val((CHOOSE r \in rec : TRUE).peso)
    ELSE 0

\* the row of the history table the selection of the widget points at
LinhaSelecionada == {row \in medidas_atleta : Some(row.id) = selecao}

\* "if row_id != cur_id": a row is selected and it is not the one in
\* reg_editando
NovaSelecao(sel) ==
    \E row \in medidas_atleta :
        /\ Some(row.id) = sel
        /\ \A e \in reg_editando : e.id # row.id

\* a cycle started by st.rerun(): PASSO 1 consumes _reg_pending and writes
\* the fields, then the selection of the history table is compared with the
\* record being edited
Ciclo ==
    /\ rerun = TRUE
    /\ \E l \in Leituras :
          /\ ultimo_registro_cache' = l.cache
          /\ ultimo_lido' = Some([valor |-> l.valor, origem |-> l.origem])
    /\ reg_peso' = IF reg_pending = None THEN reg_peso
                   ELSE Campo(Val(reg_pending))
    /\ IF NovaSelecao(selecao)
       THEN \E row \in LinhaSelecionada :
               /\ reg_editando' = Some(row)
               /\ reg_pending' = Some({row})
               /\ rerun' = TRUE
       ELSE /\ reg_editando' = reg_editando
            /\ reg_pending' = None
            /\ rerun' = FALSE
    /\ UNCHANGED <<medidas_atleta, prox_id, selecao, evento, varsMotor>>

\* a click on a row of the history table that is not the selected one; the
\* widget reruns the script with the new selection
SelecionarLinha ==
    /\ rerun = FALSE
    /\ \E row \in medidas_atleta, l \in Leituras :
          /\ selecao # Some(row.id)
          /\ selecao' = Some(row.id)
          /\ ultimo_registro_cache' = l.cache
          /\ ultimo_lido' = Some([valor |-> l.valor, origem |-> l.origem])
          /\ IF NovaSelecao(Some(row.id))
             THEN /\ reg_editando' = Some(row)
                  /\ reg_pending' = Some({row})
                  /\ rerun' = TRUE
             ELSE UNCHANGED <<reg_editando, reg_pending, rerun>>
    /\ evento' = "selecionar"
    /\ UNCHANGED <<medidas_atleta, prox_id, reg_peso, varsMotor>>

\* a click on the selected row of the history table, which unselects it
Desmarcar ==
    /\ rerun = FALSE
    /\ selecao # None
    /\ selecao' = None
    /\ \E l \in Leituras :
          /\ ultimo_registro_cache' = l.cache
          /\ ultimo_lido' = Some([valor |-> l.valor, origem |-> l.origem])
    /\ evento' = "desmarcar"
    /\ UNCHANGED <<medidas_atleta, prox_id, reg_editando, reg_pending,
                   reg_peso, rerun, varsMotor>>

\* the Deletar button, shown while a row is being edited. The history table
\* of the next cycle shows other rows and starts with no row selected.
Deletar ==
    /\ rerun = FALSE
    /\ reg_editando # None
    /\ medidas_atleta' =
          deletar_registro_unificado(medidas_atleta, Val(reg_editando).id)
    /\ \E l \in Leituras : ultimo_registro_cache' = LimparCache(l.cache)
    /\ ultimo_lido' = None
    /\ reg_editando' = None
    /\ reg_pending' = Some({})
    /\ selecao' = None
    /\ rerun' = TRUE
    /\ evento' = "deletar"
    /\ UNCHANGED <<prox_id, reg_peso, varsMotor>>

\* the submit button of the form while a row is being edited
SubmeterEdicao ==
    /\ rerun = FALSE
    /\ reg_editando # None
    /\ \E data_reg \in DatasRegistro, peso \in PesosRegistro :
          /\ medidas_atleta' =
                atualizar_registro(medidas_atleta, Val(reg_editando).id,
                                   [data |-> data_reg, peso |-> peso])
          /\ reg_peso' = Val(peso)
    /\ \E l \in Leituras : ultimo_registro_cache' = LimparCache(l.cache)
    /\ ultimo_lido' = None
    /\ reg_editando' = None
    /\ reg_pending' = Some({})
    /\ selecao' = None
    /\ rerun' = TRUE
    /\ evento' = "salvar"
    /\ UNCHANGED <<prox_id, varsMotor>>

\* the submit button of the form while no row is being edited
SubmeterNovo ==
    /\ rerun = FALSE
    /\ reg_editando = None
    /\ prox_id <= MaxInsercoes
    /\ \E data_reg \in DatasRegistro, peso \in PesosRegistro :
          /\ medidas_atleta' =
                salvar_novo_registro(medidas_atleta, prox_id,
                                     [data |-> data_reg, peso |-> peso])
          /\ reg_peso' = Val(peso)
    /\ \E l \in Leituras : ultimo_registro_cache' = LimparCache(l.cache)
    /\ ultimo_lido' = None
    /\ prox_id' = prox_id + 1
    /\ reg_editando' = None
    /\ reg_pending' = Some({})
    /\ selecao' = None
    /\ rerun' = TRUE
    /\ evento' = "salvar"
    /\ UNCHANGED varsMotor

\* the Cancelar edicao button, shown while a row is being edited; the
\* history table is drawn again from the same rows and keeps its selection
CancelarEdicao ==
    /\ rerun = FALSE
    /\ reg_editando # None
    /\ \E l \in Leituras :
          /\ ultimo_registro_cache' = l.cache
          /\ ultimo_lido' = Some([valor |-> l.valor, origem |-> l.origem])
    /\ reg_editando' = None
    /\ reg_pending' = Some({})
    /\ rerun' = TRUE
    /\ evento' = "cancelar"
    /\ UNCHANGED <<medidas_atleta, prox_id, reg_peso, selecao, varsMotor>>

\* the Limpar formulario button, shown in both modes
LimparFormulario ==
    /\ rerun = FALSE
    /\ \E l \in Leituras :
          /\ ultimo_registro_cache' = l.cache
          /\ ultimo_lido' = Some([valor |-> l.valor, origem |-> l.origem])
    /\ reg_editando' = None
    /\ reg_pending' = Some({})
    /\ rerun' = TRUE
    /\ evento' = "limpar"
    /\ UNCHANGED <<medidas_atleta, prox_id, reg_peso, selecao, varsMotor>>

\* the Ultimo registro button: the newest record is scheduled to be loaded
\* into the fields; reg_editando is left as it is
UltimoRegistro ==
    /\ rerun = FALSE
    /\ \E l \in Leituras :
          \E l2 \in carregar_ultimo_registro(l.cache, medidas_atleta) :
              /\ ultimo_registro_cache' = l2.cache
              /\ ultimo_lido' = Some([valor |-> l2.valor, origem |-> l2.origem])
              /\ reg_pending' = Some(l2.valor)
    /\ rerun' = TRUE
    /\ evento' = "ultimo"
    /\ UNCHANGED <<medidas_atleta, prox_id, reg_editando, reg_peso, selecao,
                   varsMotor>>

NextRegistros ==
    \/ Ciclo
    \/ SelecionarLinha
    \/ Desmarcar
    \/ Deletar
    \/ SubmeterEdicao
    \/ SubmeterNovo
    \/ CancelarEdicao
    \/ LimparFormulario
    \/ UltimoRegistro

SpecRegistros == InitRegistros /\ [][NextRegistros]_vars

----------------------------------------------------------------------------
(* C17 *)

\* C17: after any sequence of saves, updates and deletes the table holds at
\* most one row per date: a save on a date that already has a row replaces
\* that row.
C17_OneRecordPerDate ==
    \A r1, r2 \in medidas_atleta : r1.data = r2.data => r1 = r2

\* what the code guarantees: one row per id, and every id was given out
C17_OneRecordPerId ==
    /\ \A r1, r2 \in medidas_atleta : r1.id = r2.id => r1 = r2
    /\ \A r \in medidas_atleta : r.id < prox_id

----------------------------------------------------------------------------
(* C19 *)

\* the fatigue points of everything but the HRV drop
PontosSemVfc(a, acwr_val, cv_val) ==
      (IF a.sleep_score < 50 THEN 2 ELSE IF a.sleep_score < 70 THEN 1 ELSE 0)
    + (IF a.recovery_time >= 48 THEN 2 ELSE IF a.recovery_time >= 36 THEN 1 ELSE 0)
    + (IF Maior(acwr_val, 1500) THEN 1 ELSE 0)
    + (IF Maior(cv_val, 100) THEN 1 ELSE 0)

\* C19: with a baseline HRV of zero the HRV drop adds no fatigue points, and
\* the metrics summary says the HRV could not be evaluated instead of
\* showing a drop or an increase.
C19_HrvNotEvaluated ==
    \A p \in prescricao :
        atleta.vfc_base = 0 =>
            /\ p.pts = PontosSemVfc(atleta, p.acwr_val, p.cv_val)
            /\ p.txt_vfc \notin {"Queda", "Aumento"}

\* what the code guarantees: with a baseline HRV of zero the HRV drop adds
\* no fatigue points and the summary shows an increase (of 0.0%)
C19_ZeroBaselineShownAsIncrease ==
    \A p \in prescricao :
        atleta.vfc_base = 0 =>
            /\ p.pts = PontosSemVfc(atleta, p.acwr_val, p.cv_val)
            /\ p.txt_vfc = "Aumento"

----------------------------------------------------------------------------
(* C20 *)

\* C20: whenever the phase engine returns a current phase other than
\* Cutting, the plateau flag it returns is False, whatever the weights of
\* the history.
C20_PlateauOnlyInCutting ==
    \A r \in periodizacao :
        r.fase_atual # "Cutting" => ~Get(r.flags, "plato_metabolico", FALSE)

----------------------------------------------------------------------------
(* Repeated calls of the four core functions.  The arguments are the       *)
(* engine's inputs as they stand when the call is made; between calls the  *)
(* caller may change them.  Every call is logged with its arguments and    *)
(* its result.                                                             *)

MaxChamadas == 3

\* the arguments a caller may hold
EntradasRepeticao ==
    { [df |-> <<>>, atleta |-> AtletaBase, hoje |-> 400,
       data_competicao |-> 430, sexo |-> "Masculino",
       metas |-> MetasBulking, fase |-> "Bulking"],
      [df |-> SerieCutting(0, 2, 0, 1, Some(8000)),
       atleta |-> [AtletaBase EXCEPT !.fase_sugerida = "Cutting",
                                     !.estagnado_dias = 7,
                                     !.vfc_atual = 45, !.sleep_score = 40],
       hoje |-> 401, data_competicao |-> 600, sexo |-> "Feminino",
       metas |-> MetasCutting, fase |-> "Cutting"] }

\* the arguments as they stand
Entrada ==
    [df |-> df_historico, atleta |-> atleta, hoje |-> hoje,
     data_competicao |-> data_competicao, sexo |-> sexo,
     metas |-> metas, fase |-> fase]

ComEntrada(e) ==
    /\ df_historico = e.df
    /\ atleta = e.atleta
    /\ hoje = e.hoje
    /\ data_competicao = e.data_competicao
    /\ sexo = e.sexo
    /\ metas = e.metas
    /\ fase = e.fase

SemSaida == [periodizacao |-> None, dieta |-> None, prescricao |-> None,
             resultado |-> None]

InitRepeticao ==
    /\ \E e \in EntradasRepeticao : ComEntrada(e)
    /\ periodizacao = None
    /\ resultado = None
    /\ SemPrescricao
    /\ SemTela
    /\ SemTendencias
    /\ duplo_acima = {}
    /\ SemEscala
    /\ SemDieta
    /\ SemRegistros
    /\ SemManual
    /\ SemChamadas

varsSaidas == <<prescricao, resultado, varsUI, periodizacao, tendencias,
                varsEscala, dieta, varsRegistros, varsManual>>

varsEntrada == <<df_historico, atleta, hoje, data_competicao, sexo, metas, fase>>

\* the log with one more call
Registrado(funcao, saida) ==
    Append(chamadas, [funcao |-> funcao, entrada |-> Entrada, saida |-> saida])

ChamarFase ==
    /\ Len(chamadas) < MaxChamadas
    /\ chamadas' = Registrado("sugerir_fase_e_timeline",
          [SemSaida EXCEPT !.periodizacao =
              Some(sugerir_fase_e_timeline(hoje, data_competicao,
                                           atleta.bf_atual, sexo, df_historico))])
    /\ UNCHANGED <<varsEntrada, varsSaidas>>

ChamarMacros ==
    /\ Len(chamadas) < MaxChamadas
    /\ chamadas' = Registrado("calcular_macros_semana",
          [SemSaida EXCEPT !.dieta =
              Some(calcular_macros_semana(atleta, df_historico, EmptyDict))])
    /\ UNCHANGED <<varsEntrada, varsSaidas>>

ChamarRecuperacao ==
    /\ Len(chamadas) < MaxChamadas
    /\ chamadas' = Registrado("prescrever_treino_do_dia",
          [SemSaida EXCEPT !.prescricao =
              Some(prescrever_treino_do_dia(atleta, df_historico))])
    /\ UNCHANGED <<varsEntrada, varsSaidas>>

ChamarAvaliacao ==
    /\ Len(chamadas) < MaxChamadas
    /\ chamadas' = Registrado("avaliar_resultados_semana",
          [SemSaida EXCEPT !.resultado =
              Some(avaliar_resultados_semana(df_historico, metas, fase))])
    /\ UNCHANGED <<varsEntrada, varsSaidas>>

\* the caller takes other arguments for its next calls
NovaEntrada ==
    /\ \E e \in EntradasRepeticao :
          /\ e # Entrada
          /\ df_historico' = e.df
          /\ atleta' = e.atleta
          /\ hoje' = e.hoje
          /\ data_competicao' = e.data_competicao
          /\ sexo' = e.sexo
          /\ metas' = e.metas
          /\ fase' = e.fase
    /\ UNCHANGED <<varsSaidas, chamadas>>

NextRepeticao ==
    \/ ChamarFase
    \/ ChamarMacros
    \/ ChamarRecuperacao
    \/ ChamarAvaliacao
    \/ NovaEntrada

SpecRepeticao == InitRepeticao /\ [][NextRepeticao]_vars

----------------------------------------------------------------------------
(* C18 *)

----------------------------------------------------------------------------
(* C21 *)

\* p_ini and p_fim: the weights of the 14th newest and of the newest row
PIni(df) == SortByData(df)[Len(df) - 13].Peso

PFim(df) == SortByData(df)[Len(df)].Peso

\* the rate is defined: 14 rows, and both rows carry a weight
TaxaDefinida(df) == Len(df) >= 14 /\ PIni(df) # None /\ PFim(df) # None

\* the rate is below -0.1 %/week
Reganho(df) == (Val(PIni(df)) - Val(PFim(df))) * 500 < -Val(PIni(df))

\* the rate is below 0.5 %/week
AbaixoDeMeio(df) == (Val(PIni(df)) - Val(PFim(df))) * 100 < Val(PIni(df))

\* C21: a history whose rate is below -0.1 %/week does not set the plateau
\* flag; a history whose rate is defined, below 0.5 %/week and not below
\* -0.1 %/week sets it.
C21_RegainIsNotPlateau ==
    \A r \in periodizacao :
        TaxaDefinida(df_historico) =>
            /\ Reganho(df_historico) => ~Get(r.flags, "plato_metabolico", FALSE)
            /\ (AbaixoDeMeio(df_historico) /\ ~Reganho(df_historico))
                  => Get(r.flags, "plato_metabolico", FALSE)

\* what the code guarantees: the flag is set exactly when the rate is below
\* 0.5 and above -0.1 %/week; a rate of exactly -0.1 does not set it
C21_PlateauStrictlyAboveRegain ==
    \A r \in periodizacao :
        TaxaDefinida(df_historico) =>
            (Get(r.flags, "plato_metabolico", FALSE)
                <=> /\ AbaixoDeMeio(df_historico)
                    /\ (Val(PIni(df_historico)) - Val(PFim(df_historico))) * 500
                           > -Val(PIni(df_historico)))

----------------------------------------------------------------------------
(* C22 *)

\* the adjustments of a result that carry this action, delta and priority
Com(r, acao, delta, prioridade) ==
    { i \in 1..Len(r.ajustes) :
        /\ r.ajustes[i].acao = acao
        /\ r.ajustes[i].delta_calorias = delta
        /\ r.ajustes[i].prioridade = prioridade }

\* the body-fat% of the newest row
BfFim(df) == SortByData(df)[Len(df)].BF_Atual

\* C22: in Bulking the list holds +200 kcal/day at priority 2 exactly when
\* the weight gain is below the target minimum, -200 kcal/day at priority 1
\* exactly when it is above the target maximum, -150 kcal/day at priority 1
\* exactly when the fat-mass gain is above its cap, a 2-week mini-cut at
\* priority 0 exactly when the body-fat% is above the ceiling, and nothing
\* else; the list is in ascending order of priority.
C22_BulkingAdjustments ==
    \A r \in resultado :
        (fase = "Bulking" /\ TemLista(r)) =>
            LET sobe   == Com(r, "Aumentar calorias +200kcal/dia", 200, 2)
                desce  == Com(r, "Reduzir calorias -200kcal/dia", -200, 1)
                gordo  == Com(r, "Reduzir calorias -150kcal/dia", -150, 1)
                mini   == Com(r, "Mini-cut de 2 semanas", -400, 0)
            IN  /\ Cardinality(sobe)
                      = IF Menor(r.delta_peso, Get(metas, "ganho_peso_min", 0))
                        THEN 1 ELSE 0
                /\ Cardinality(desce)
                      = IF Maior(r.delta_peso, Get(metas, "ganho_peso_max", 9900))
                        THEN 1 ELSE 0
                /\ Cardinality(gordo)
                      = IF Maior(r.delta_fm, Get(metas, "ganho_fm_max", 9900))
                        THEN 1 ELSE 0
                /\ Cardinality(mini)
                      = IF Maior(BfFim(df_historico), Get(metas, "bf_max", 9900))
                        THEN 1 ELSE 0
                /\ sobe \cup desce \cup gordo \cup mini = 1..Len(r.ajustes)
                /\ \A i, j \in 1..Len(r.ajustes) :
                      i < j => r.ajustes[i].prioridade <= r.ajustes[j].prioridade

\* a Bulking week with too little weight gain and a body-fat% above the
\* ceiling: the mini-cut, appended last, comes first
C22_Witness ==
    \E r \in resultado :
        /\ fase = "Bulking" /\ TemLista(r)
        /\ Len(r.ajustes) = 2
        /\ r.ajustes[1].prioridade = 0 /\ r.ajustes[1].delta_calorias = -400
        /\ r.ajustes[2].prioridade = 2 /\ r.ajustes[2].delta_calorias = 200

----------------------------------------------------------------------------
(* C23 *)

\* the current run of deficit: the newest rows of the history, down to the
\* first one that is not labelled Cutting (df is newest first)
CorridaAtual(df) ==
    LET run == { k \in 0..Len(df) :
                   \A i \in 1..k : df[i].Fase_Historica = Some("Cutting") }
    IN  SubSeq(df, 1, CHOOSE k \in run : \A y \in run : y <= k)

\* C23: only the current run of deficit weeks counts: the deficit days of
\* the table are those of the table computed from the current run alone,
\* whatever older Cutting rows the history holds.
C23_OnlyCurrentRunCounts ==
    \A d \in dieta :
        (EmCutting(atleta) /\ atleta.peso > 0) =>
            d.plano[1].Calorias
                = calcular_macros_semana(atleta, CorridaAtual(df_historico),
                                         EmptyDict).plano[1].Calorias

----------------------------------------------------------------------------
(* Specification of the weekly macro table over athletes of every phase,   *)
(* with positive weights and body-fat%, up to those whose protein and fat  *)
(* alone exceed the calories of the day.                                   *)

AtletasMacros ==
    { [AtletaBase EXCEPT !.peso = p, !.bf_atual = b, !.fase_sugerida = f,
                         !.uso_peds = u, !.estagnado_dias = e] :
        p \in {6000, 8000, 12000, 46000},
        b \in {800, 1200, 3000, 7000},
        f \in {"Bulking", "Cutting", "Pre-Contest (Cutting)", "Peak Week",
               "Recomposicao Corporal"},
        u \in BOOLEAN, e \in {0, 7} }

SeriesMacros ==
    { SerieCutting(0, w2, 0, 1, Some(8000)) : w2 \in {0, 5, MaxSemanas} }

InitMacros ==
    /\ df_historico \in SeriesMacros
    /\ atleta \in AtletasMacros
    /\ SemPeriodizacao
    /\ SemPrescricao
    /\ SemAvaliacao
    /\ SemTela
    /\ SemTendencias
    /\ duplo_acima = {}
    /\ SemEscala
    /\ SemDieta
    /\ SemRegistros
    /\ SemManual
    /\ SemChamadas

NextMacros == CalcularMacrosSemana

SpecMacros == InitMacros /\ [][NextMacros]_vars

----------------------------------------------------------------------------
(* C24 *)

\* the kcal of a row of the table left after its protein and its fat
Resto(dia) == dia.Calorias - 4 * dia.Prot - 9 * dia.Gord

\* C24: for positive weights and body-fat% no row of the table has negative
\* carbohydrate; in Bulking the carbohydrate is at least 50 g, it is 50 g
\* only when the calories left after protein and fat give no more, and
\* above 50 g it fills those calories (to the rounding of the table's whole
\* grams and kcal).
C24_CarbNeverNegative ==
    \A d \in dieta :
        (atleta.peso > 0 /\ atleta.bf_atual > 0) =>
            \A i \in 1..7 :
                /\ d.plano[i].Carb >= 0
                /\ atleta.fase_sugerida = "Bulking" =>
                      /\ d.plano[i].Carb >= 50
                      /\ d.plano[i].Carb = 50 => Resto(d.plano[i]) <= 200 + 9
                      /\ d.plano[i].Carb > 50 =>
                            /\ 4 * d.plano[i].Carb - Resto(d.plano[i]) <= 9
                            /\ Resto(d.plano[i]) - 4 * d.plano[i].Carb <= 9

\* a Bulking table whose protein and fat leave less than 50 g of
\* carbohydrate, and that carries the 50 g
C24_Witness ==
    \E d \in dieta :
        /\ atleta.peso > 0 /\ atleta.bf_atual > 0
        /\ atleta.fase_sugerida = "Bulking"
        /\ Resto(d.plano[1]) < 200 - 9
        /\ d.plano[1].Carb = 50

----------------------------------------------------------------------------
(* The recovery tab as the app reaches it: render_app builds the athlete   *)
(* from the newest record and the profile, tab_recuperacao calls the       *)
(* scorer.  Before the step, atleta holds the values as stored: vfc_base   *)
(* the profile's vfc_baseline, sleep_score and recovery_time those of the  *)
(* newest record, 0 standing for a value that is not recorded.             *)

SeriesRecuperacaoApp ==
    { Serie(n, MedidaBase, MedidaBase, MedidaBase,
            [MedidaBase EXCEPT !.VFC_Atual = v]) :
        n \in {1, 7, 8, MaxRegistros}, v \in {None, Some(60)} }

AtletasRecuperacaoApp ==
    { [AtletaBase EXCEPT !.vfc_base = b, !.sleep_score = s, !.recovery_time = r] :
        b \in {0, 50, 60}, s \in {0, 40, 60, 80}, r \in {0, 24, 40, 48} }

InitRecuperacaoApp ==
    /\ df_historico \in SeriesRecuperacaoApp
    /\ atleta \in AtletasRecuperacaoApp
    /\ SemPeriodizacao
    /\ SemPrescricao
    /\ SemAvaliacao
    /\ SemTela
    /\ SemTendencias
    /\ duplo_acima = {}
    /\ SemEscala
    /\ SemDieta
    /\ SemRegistros
    /\ SemManual
    /\ SemChamadas

\* tem_vfc or tem_rec: the tab goes on to the scorer
TemDadosRecuperacao(ultimo, a) ==
    \/ Maior(ultimo.VFC_Atual, 0)
    \/ a.recovery_time > 0
    \/ a.sleep_score > 0

\* render_app: vfc_base or 60.0, vfc_at or 0.0; tab_recuperacao: the scorer
\* is called unless the newest record has neither an HRV value nor a sleep
\* score nor a recovery time
TabRecuperacao ==
    /\ prescricao = None
    /\ df_historico # <<>>
    /\ LET ultimo == df_historico[1]
           vfc_at == PositivoOuNone(ultimo.VFC_Atual)
           vfc_b  == PositivoOuNone(Some(atleta.vfc_base))
           at     == [atleta EXCEPT !.vfc_base = Ou(vfc_b, 60),
                                    !.vfc_atual = Ou(vfc_at, 0)]
       IN  /\ atleta' = at
           /\ prescricao' = IF TemDadosRecuperacao(ultimo, atleta)
                            THEN Some(prescrever_treino_do_dia(at, df_historico))
                            ELSE None
    /\ UNCHANGED <<df_historico, metas, fase, resultado, varsUI, varsFase,
                   tendencias, varsEscala, dieta, varsRegistros, varsManual, chamadas>>

NextRecuperacaoApp == TabRecuperacao

SpecRecuperacaoApp == InitRecuperacaoApp /\ [][NextRecuperacaoApp]_vars

----------------------------------------------------------------------------
(* C25 *)

\* C25: when the newest record has no HRV value, the scorer the tab calls
\* gives the points and the status it gives an athlete whose HRV equals the
\* baseline, everything else the same.
C25_MissingHrvNotADrop ==
    \A p \in prescricao :
        df_historico[1].VFC_Atual = None =>
            LET igual == prescrever_treino_do_dia(
                             [atleta EXCEPT !.vfc_atual = atleta.vfc_base],
                             df_historico)
            IN  p.pts = igual.pts /\ p.status = igual.status

\* what the code guarantees: a missing HRV value is scored as an HRV of 0,
\* a drop of 100%: 3 points more than with the HRV at the baseline
C25_MissingHrvScoredAsFullDrop ==
    \A p \in prescricao :
        df_historico[1].VFC_Atual = None =>
            p.pts = 3 + prescrever_treino_do_dia(
                            [atleta EXCEPT !.vfc_atual = atleta.vfc_base],
                            df_historico).pts

----------------------------------------------------------------------------
(* C26 *)

\* C26: every resolution option of a conflict carries the calorie delta of
\* one of the adjustments of the list.
C26_OptionsMatchAdjustments ==
    \A r \in resultado :
        \A i \in 1..Len(OpcoesDe(r)) :
            \E j \in 1..Len(r.ajustes) :
                r.ajustes[j].delta_calorias = OpcoesDe(r)[i].delta_calorias

\* what the code guarantees: in a Cutting conflict the options are those of
\* the two adjustments; a Bulking conflict always offers +200, -150 and the
\* mini-cut at -500, whichever adjustments were generated
C26_FixedBulkingOptions ==
    \A r \in resultado :
        OpcoesDe(r) # <<>> =>
            IF fase = "Bulking"
            THEN [i \in 1..Len(OpcoesDe(r)) |-> OpcoesDe(r)[i].delta_calorias]
                     = <<200, -150, -500>>
            ELSE \A i \in 1..Len(OpcoesDe(r)) :
                    \E j \in 1..Len(r.ajustes) :
                        r.ajustes[j].delta_calorias = OpcoesDe(r)[i].delta_calorias

----------------------------------------------------------------------------
(* C27 *)

\* C27: with today before the competition the projected spans are
\* contiguous and in order, from today to the competition date, none ends
\* before it starts, the Peak Week span is at most 7 days and the Cutting
\* span at most 112 days, and the current phase is the label of the first.
C27_ProjectedSpans ==
    \A r \in periodizacao :
        hoje < data_competicao =>
            LET p == Projetados(r.timeline)
            IN  /\ p # <<>>
                /\ p[1].Inicio = hoje
                /\ p[Len(p)].Fim = data_competicao
                /\ \A i \in 1..Len(p) : p[i].Inicio <= p[i].Fim
                /\ \A i \in 1..(Len(p) - 1) : p[i].Fim = p[i + 1].Inicio
                /\ \A i \in 1..Len(p) :
                      /\ p[i].Fase = "Peak Week" => p[i].Fim - p[i].Inicio <= 7
                      /\ p[i].Fase = "Cutting" => p[i].Fim - p[i].Inicio <= 112
                /\ r.fase_atual = p[1].Fase

\* the competition exactly 119 days ahead: a Cutting span of the full 112
\* days from today, then the Peak Week
C27_Witness ==
    \E r \in periodizacao :
        LET p == Projetados(r.timeline)
        IN  /\ hoje < data_competicao
            /\ Len(p) = 2
            /\ p[1].Fase = "Cutting" /\ p[1].Inicio = hoje
            /\ p[1].Fim - p[1].Inicio = 112
            /\ p[2].Fase = "Peak Week" /\ p[2].Fim - p[2].Inicio = 7

----------------------------------------------------------------------------
(* C28 *)

\* C28: within a session, whatever the saves, updates, deletes and reads
\* made so far, the value the session cache holds and the value the last
\* answered read returned is a most recent record of the table as it is now:
\* never a row a completed write changed or removed, and the empty result
\* only when the table has no row.
C28_ReadYourWrites ==
    /\ \A c \in ultimo_registro_cache : c \in Ultimos(medidas_atleta)
    /\ \A u \in ultimo_lido :
          u.origem # "erro" => u.valor \in Ultimos(medidas_atleta)

\* a later record was saved after an earlier one had been cached, and a read
\* served from the cache returns the later one
C28_Witness ==
    /\ Cardinality(medidas_atleta) >= 2
    /\ \E c \in ultimo_registro_cache :
          /\ \E r \in c : r.id = prox_id - 1 /\ r.id > 1
          /\ \E u \in ultimo_lido : u.origem = "cache" /\ u.valor = c

----------------------------------------------------------------------------
(* C30 *)

\* the cycle is over and nothing is scheduled: the form is on the screen
FormularioNaTela == rerun = FALSE

\* C30: once the cycles that follow Save, Delete, Cancel or Clear are over,
\* the form is in new-record mode with its fields reset, so that a later
\* submit does not overwrite the record that was being edited.
C30_NewRecordModeAfterReset ==
    (FormularioNaTela /\ evento \in {"salvar", "deletar", "cancelar", "limpar"})
        => (reg_editando = None /\ reg_peso = 0)

\* what the code guarantees: _reg_pending is consumed before the form is
\* drawn, and after Save or Delete the form is in new-record mode with its
\* fields reset
C30_PendingConsumed ==
    /\ FormularioNaTela => reg_pending = None
    /\ (FormularioNaTela /\ evento \in {"salvar", "deletar"})
          => (reg_editando = None /\ reg_peso = 0)

\* what the code guarantees: a submit while a record is being edited writes
\* the row of that id and inserts nothing; a submit in new-record mode
\* inserts one row and leaves the others as they are
C30_SubmitByMode ==
    [][(~rerun /\ rerun' /\ evento' = "salvar") =>
          IF reg_editando # None
          THEN /\ {r.id : r \in medidas_atleta'} = {r.id : r \in medidas_atleta}
               /\ \A r \in medidas_atleta :
                     r.id # Val(reg_editando).id => r \in medidas_atleta'
          ELSE /\ medidas_atleta \subseteq medidas_atleta'
               /\ Cardinality(medidas_atleta') = Cardinality(medidas_atleta) + 1
      ]_vars

\* what the code guarantees: after Cancel or Clear with the edited row still
\* selected in the history table, the form is back in edit mode on that row
C30_CancelReturnsToSelectedRow ==
    (FormularioNaTela /\ evento \in {"cancelar", "limpar"} /\ reg_editando # None)
        => (LinhaSelecionada # {} /\ Some(Val(reg_editando).id) = selecao)

----------------------------------------------------------------------------
(* The manual plans: tables treino_manual, periodizacao_manual and         *)
(* dieta_manual of the user. A plan is the set of rows the editor hands to *)
(* the save function; a row of the training plan is its exercise, one of   *)
(* the periodization its phase and start, one of the diet its food; an     *)
(* empty string is a cell left blank.                                      *)

Exercicios == {"Supino", "Agachamento"}

FasesManuais == {"Bulking", "Cutting", ""}

Alimentos == {"Arroz", "Frango", ""}

DatasRef == {1, 2}

\* where a save can raise: nowhere, in the delete, or in the insert
Falhas == {"nenhuma", "delete", "insert"}

PlanosTreino == SUBSET {[exercicio |-> e] : e \in Exercicios}

PlanosPeriodizacao == SUBSET {[fase |-> f] : f \in FasesManuais}

PlanosDieta == SUBSET {[alimento |-> a] : a \in Alimentos}

InitPlanoManual ==
    /\ df_historico = <<>>
    /\ atleta = AtletaBase
    /\ SemPeriodizacao
    /\ SemPrescricao
    /\ SemAvaliacao
    /\ SemTela
    /\ SemTendencias
    /\ duplo_acima = {}
    /\ SemEscala
    /\ SemDieta
    /\ SemRegistros
    /\ SemManual
    /\ SemChamadas

\* the body of the try of the three save functions: the delete of the rows
\* the plan replaces, then the insert of the rows to store when there is
\* any. An exception leaves the try where it is raised.
DeleteInsert(tabela, apagadas, data, falha) ==
    IF falha = "delete" THEN tabela
    ELSE IF falha = "insert" /\ data # {} THEN tabela \ apagadas
    ELSE (tabela \ apagadas) \cup data

\* whether the save ended in the except branch
Erro(data, falha) == falha = "delete" \/ (falha = "insert" /\ data # {})

\* salvar_treino_manual(df)
SalvarTreinoManual ==
    \E df \in PlanosTreino, falha \in Falhas :
        /\ treino_manual' = DeleteInsert(treino_manual, treino_manual, df, falha)
        /\ salvamento' = Some([funcao |-> "salvar_treino_manual",
                               antes |-> treino_manual,
                               substituidas |-> treino_manual,
                               data |-> df,
                               erro |-> Erro(df, falha)])
        /\ UNCHANGED <<periodizacao_manual, dieta_manual>>
        /\ UNCHANGED <<df_historico, atleta, prescricao, metas, fase, resultado,
                       varsUI, varsFase, tendencias, varsEscala, dieta,
                       varsRegistros, chamadas>>

\* salvar_periodizacao_manual(df): the rows with no phase are not stored
SalvarPeriodizacaoManual ==
    \E df \in PlanosPeriodizacao, falha \in Falhas :
        LET data == {r \in df : r.fase # ""}
        IN  /\ periodizacao_manual' =
                  DeleteInsert(periodizacao_manual, periodizacao_manual,
                               data, falha)
            /\ salvamento' = Some([funcao |-> "salvar_periodizacao_manual",
                                   antes |-> periodizacao_manual,
                                   substituidas |-> periodizacao_manual,
                                   data |-> data,
                                   erro |-> Erro(data, falha)])
            /\ UNCHANGED <<treino_manual, dieta_manual>>
            /\ UNCHANGED <<df_historico, atleta, prescricao, metas, fase,
                           resultado, varsUI, varsFase, tendencias, varsEscala,
                           dieta, varsRegistros, chamadas>>

\* salvar_dieta_manual(df, data_ref): the plan of one date; the rows with
\* neither meal nor food are not stored
SalvarDietaManual ==
    \E df \in PlanosDieta, data_ref \in DatasRef, falha \in Falhas :
        LET data == {[data_ref |-> data_ref, alimento |-> r.alimento] :
                        r \in {q \in df : q.alimento # ""}}
            apagadas == {r \in dieta_manual : r.data_ref = data_ref}
        IN  /\ dieta_manual' = DeleteInsert(dieta_manual, apagadas, data, falha)
            /\ salvamento' = Some([funcao |-> "salvar_dieta_manual",
                                   antes |-> dieta_manual,
                                   substituidas |-> apagadas,
                                   data |-> data,
                                   erro |-> Erro(data, falha)])
            /\ UNCHANGED <<treino_manual, periodizacao_manual>>
            /\ UNCHANGED <<df_historico, atleta, prescricao, metas, fase,
                           resultado, varsUI, varsFase, tendencias, varsEscala,
                           dieta, varsRegistros, chamadas>>

NextPlanoManual ==
    \/ SalvarTreinoManual
    \/ SalvarPeriodizacaoManual
    \/ SalvarDietaManual

SpecPlanoManual == InitPlanoManual /\ [][NextPlanoManual]_vars

----------------------------------------------------------------------------
(* C29 *)

\* the table the last save wrote, as it is now
TabelaSalva(s) ==
    IF s.funcao = "salvar_treino_manual" THEN treino_manual
    ELSE IF s.funcao = "salvar_periodizacao_manual" THEN periodizacao_manual
    ELSE dieta_manual

\* C29: a save of a manual plan that completes leaves in the store exactly
\* the submitted rows in place of the plan it replaces, and a save that
\* fails at any step leaves the store as it was before the save.
C29_ReplaceOrKeep ==
    \A s \in salvamento :
        IF s.erro
        THEN TabelaSalva(s) = s.antes
        ELSE TabelaSalva(s) = (s.antes \ s.substituidas) \cup s.data

\* what the code guarantees: a save that completes leaves the submitted rows
\* in place of the plan it replaces; after a save that failed the store has
\* the old plan or has lost it, and holds none of the submitted rows that
\* were not there before
C29_ReplaceOrLose ==
    \A s \in salvamento :
        IF s.erro
        THEN TabelaSalva(s) \in {s.antes, s.antes \ s.substituidas}
        ELSE TabelaSalva(s) = (s.antes \ s.substituidas) \cup s.data

====
